---- MODULE Spec2Model ----
(***************************************************************************)
(* Model of the configuration tree engine of pymfony/config:               *)
(* src/definition/__init__.py (Processor and the node classes) and         *)
(* src/definition/builder.py (the definitions compiled into nodes).        *)
(*                                                                         *)
(* Values.  A Python value is a tagged record: None, bool, int, str, dict  *)
(* and list.  A string is a tuple of one-character strings, so that        *)
(* str.replace('-', '_') is computed character by character.  A dict is a  *)
(* function from keys (strings) to values; the integer key i of            *)
(* Array.toDict is written as its numeral (IntKey).  A dict that the code  *)
(* iterates is visited in the order of KeyOrder.  ArrayNode._preNormalize  *)
(* iterates a snapshot of the items (dict.items() returning a list).       *)
(*                                                                         *)
(* Objects.  normalize changes its argument in place (renamed keys,        *)
(* remapped keys, the removed key attribute), so every normalize operator  *)
(* returns, next to its result, the caller's object as the call left it    *)
(* (field inp).                                                            *)
(***************************************************************************)
EXTENDS Integers, Sequences, FiniteSets, TLC

(***************************************************************************)
(* Bounds of the model.                                                    *)
(***************************************************************************)
MaxConfigs == 2
MaxRuns == 2

(***************************************************************************)
(* Python values.                                                          *)
(***************************************************************************)
None == [t |-> "null"]
Bool(b) == [t |-> "bool", b |-> b]
PyInt(n) == [t |-> "int", n |-> n]
Str(s) == [t |-> "str", s |-> s]
Dict(f) == [t |-> "map", m |-> f]
List(l) == [t |-> "list", l |-> l]

False == Bool(FALSE)
True == Bool(TRUE)
EmptyFcn == [k \in {} |-> None]
EmptyDict == Dict(EmptyFcn)

IsDict(v) == v.t = "map"
IsList(v) == v.t = "list"

\* value is False
IsFalse(v) == v = False

\* bool(value): the truth value of a Python object
Truthy(v) ==
    CASE v.t = "null" -> FALSE
      [] v.t = "bool" -> v.b
      [] v.t = "int" -> v.n # 0
      [] v.t = "str" -> v.s # <<>>
      [] v.t = "map" -> DOMAIN v.m # {}
      [] v.t = "list" -> v.l # <<>>

\* a == b: bool is a subclass of int, so False == 0 and True == 1
PyEq(a, b) ==
    CASE a.t = "bool" /\ b.t = "int" -> b.n = (IF a.b THEN 1 ELSE 0)
      [] a.t = "int" /\ b.t = "bool" -> a.n = (IF b.b THEN 1 ELSE 0)
      [] OTHER -> a = b

(***************************************************************************)
(* Keys.                                                                   *)
(***************************************************************************)
Digits == <<"0", "1", "2", "3", "4", "5", "6", "7">>
IntKey(i) == <<Digits[i + 1]>>
IntKeys == {IntKey(i) : i \in 0..(Len(Digits) - 1)}

\* the keys of the model, in the order in which a dict is iterated
KeyOrder ==
    [i \in DOMAIN Digits |-> <<Digits[i]>>] \o
    << <<"a", "_", "b">>, <<"a", "-", "b">>,
       <<"s", "e", "c">>, <<"x">>, <<"x", "-", "y">>, <<"x", "_", "y">>,
       <<"i", "t", "e", "m">>, <<"i", "t", "e", "m", "s">>,
       <<"i", "d">>, <<"v", "a", "l", "u", "e">>, <<"v">>,
       <<"k">>, <<"j">>, <<"z", "z">>, <<"z", "-", "z">>, <<"z", "_", "z">>,
       <<"N", "o", "n", "e">>, <<"e", "n", "a", "b", "l", "e", "d">> >>

RECURSIVE FilterSeq(_, _)
FilterSeq(seq, S) ==
    IF seq = <<>> THEN <<>>
    ELSE IF Head(seq) \in S THEN <<Head(seq)>> \o FilterSeq(Tail(seq), S)
    ELSE FilterSeq(Tail(seq), S)

\* list(d.keys()) of a dict with domain S
KeysOf(S) == FilterSeq(KeyOrder, S)

SeqRange(seq) == {seq[i] : i \in DOMAIN seq}

\* d with key k removed (d.pop(k), del d[k])
Without(f, k) == [x \in (DOMAIN f) \ {k} |-> f[x]]
\* d with d[k] = v
With(f, k, v) == [x \in (DOMAIN f) \cup {k} |-> IF x = k THEN v ELSE f[x]]

\* Array.toDict: a list becomes the dict of its indexes, a dict is kept
ToDict(v) ==
    IF IsList(v)
    THEN Dict([k \in {IntKey(i - 1) : i \in DOMAIN v.l} |->
                   v.l[(CHOOSE i \in DOMAIN v.l : IntKey(i - 1) = k)]])
    ELSE v

(***************************************************************************)
(* Outcomes of an operation: a returned value, or a raised exception with  *)
(* the path of the node that raised it.                                    *)
(***************************************************************************)
Ok(v) == [err |-> "none", path |-> <<>>, val |-> v]
Raise(kind, path) == [err |-> kind, path |-> path, val |-> None]
IsOk(r) == r.err = "none"

(***************************************************************************)
(* Nodes.  A node is a record of the fields the node classes set in their  *)
(* constructors; a field a class does not have keeps the value below and   *)
(* is never read for that class.                                           *)
(***************************************************************************)
\* a node without prototype has prototype = <<>>, a prototyped one <<node>>
NoNode == <<>>

\* BaseNode.__init__
BaseNode(kind, name) ==
    [ kind |-> kind,
      name |-> name,
      normalizationClosures |-> <<>>,
      finalValidationClosures |-> <<>>,
      allowOverwrite |-> TRUE,
      required |-> FALSE,
      equivalentValues |-> <<>>,
      \* VariableNode
      defaultValueSet |-> FALSE,
      defaultValue |-> None,
      allowEmptyValue |-> TRUE,
      \* ArrayNode
      xmlRemappings |-> <<>>,
      children |-> <<>>,
      allowFalse |-> FALSE,
      allowNewKeys |-> TRUE,
      addIfNotSet |-> FALSE,
      performDeepMerging |-> TRUE,
      ignoreExtraKeys |-> FALSE,
      normalizeKeys |-> TRUE,
      \* PrototypedArrayNode
      prototype |-> NoNode,
      keyAttribute |-> None,
      removeKeyAttribute |-> FALSE,
      minNumberOfElements |-> 0,
      defaultChildren |-> <<>> ]

\* VariableNode.__init__, and its subclasses ScalarNode and BooleanNode
VariableNode(name) == BaseNode("variable", name)
ScalarNode(name) == BaseNode("scalar", name)
BooleanNode(name) == BaseNode("boolean", name)

\* ArrayNode.__init__
ArrayNode(name) == BaseNode("array", name)

\* PrototypedArrayNode.__init__: the explicit default value is an empty dict
PrototypedArrayNode(name) ==
    [BaseNode("prototype", name) EXCEPT !.defaultValue = EmptyDict]

\* NumericNode.__init__ of an IntegerNode: minValue and maxValue are None or
\* an int
IntegerNode(name, minValue, maxValue) ==
    [k \in DOMAIN BaseNode("integer", name) \cup {"min", "max"} |->
        CASE k = "min" -> minValue
          [] k = "max" -> maxValue
          [] OTHER -> BaseNode("integer", name)[k]]

IsArrayKind(node) == node.kind \in {"array", "prototype"}

\* the child named name of an array node (self._children[name])
ChildNames(node) == {node.children[i].name : i \in DOMAIN node.children}
Child(node, name) ==
    node.children[CHOOSE i \in DOMAIN node.children :
                      node.children[i].name = name]

\* ArrayNode.addChild: a named child whose name is not taken is appended
addChild(node, child) ==
    [node EXCEPT !.children = Append(@, child)]

\* ArrayNode.addChild: TRUE when it raises InvalidArgumentException (the
\* child has no name, or a child of that name exists)
addChild_raises(node, child) ==
    \/ child.name = <<>>
    \/ \E n \in DOMAIN node.children : node.children[n].name = child.name

(***************************************************************************)
(* ArrayNode._preNormalize, Processor.normalizeConfig, ArrayNode._remapXml *)
(***************************************************************************)
HasChar(k, c) == \E i \in DOMAIN k : k[i] = c

\* str(k).replace('-', '_')
ReplaceDash(k) == [i \in DOMAIN k |-> IF k[i] = "-" THEN "_" ELSE k[i]]

\* a variant that renames without looking for the new key in the mapping
PreNormalizeItem_overwrite(d, k, v) ==
    IF HasChar(k, "-") /\ ~HasChar(k, "_")
    THEN Without(With(d, ReplaceDash(k), v), k)
    ELSE d

\* one iteration of the loop of _preNormalize, for the item (k, v)
PreNormalizeItem(d, k, v) ==
    IF HasChar(k, "-") /\ ~HasChar(k, "_") /\ ReplaceDash(k) \notin DOMAIN d
    THEN Without(With(d, ReplaceDash(k), v), k)
    ELSE d

RECURSIVE PreNormalizeLoop(_, _, _)
PreNormalizeLoop(d, items, keys) ==
    IF keys = <<>> THEN d
    ELSE PreNormalizeLoop(PreNormalizeItem(d, Head(keys), items[Head(keys)]),
                          items, Tail(keys))

\* ArrayNode._preNormalize; the other node classes return the value
PreNormalize(node, value) ==
    IF ~IsArrayKind(node) \/ ~node.normalizeKeys \/ ~IsDict(value)
    THEN value
    ELSE Dict(PreNormalizeLoop(value.m, value.m, KeysOf(DOMAIN value.m)))

\* str(x) of None or of a string
PyStr(x) == IF x = None THEN <<"N", "o", "n", "e">> ELSE x.s

\* list(values)
ListOf(v) ==
    CASE v.t = "list" -> Ok(v)
      [] v.t = "map" ->
            Ok(List([i \in 1..Cardinality(DOMAIN v.m) |->
                         Str(KeysOf(DOMAIN v.m)[i])]))
      [] v.t = "str" -> Ok(List([i \in DOMAIN v.s |-> Str(<<v.s[i]>>)]))
      [] OTHER -> Raise("TypeError", <<>>)

\* Processor.normalizeConfig(config, key, plural); config is a dict
normalizeConfig(config, key, plural) ==
    LET k == PyStr(key)
        p == PyStr(plural)
        values ==
            IF p \in DOMAIN config.m THEN config.m[p]
            ELSE IF k \in DOMAIN config.m
                 THEN IF IsList(config.m[k]) THEN config.m[k]
                      ELSE List(<<config.m[k]>>)
                 ELSE List(<<>>)
    IN ListOf(values)

\* ArrayNode._remapXml: val is the dict as the loop left it
RECURSIVE RemapXmlLoop(_, _)
RemapXmlLoop(value, remappings) ==
    IF remappings = <<>> THEN Ok(value)
    ELSE LET singular == Head(remappings)[1]
             plural == Head(remappings)[2]
         IN IF singular \notin DOMAIN value.m
            THEN RemapXmlLoop(value, Tail(remappings))
            ELSE LET r == normalizeConfig(value, Str(singular), Str(plural))
                 IN IF ~IsOk(r) THEN [r EXCEPT !.val = value]
                    ELSE RemapXmlLoop(
                             Dict(Without(With(value.m, plural, r.val),
                                          singular)),
                             Tail(remappings))

_remapXml(node, value) == RemapXmlLoop(value, node.xmlRemappings)

(***************************************************************************)
(* _validateType of each node class.                                       *)
(***************************************************************************)
_validateType(node, path, value) ==
    CASE node.kind = "variable" -> Ok(value)
      [] node.kind = "scalar" ->
            IF value.t \in {"map", "list"}
            THEN Raise("InvalidType", path) ELSE Ok(value)
      [] node.kind = "boolean" ->
            IF value.t # "bool"
            THEN Raise("InvalidType", path) ELSE Ok(value)
      [] node.kind = "integer" ->
            IF value.t # "int"
            THEN Raise("InvalidType", path) ELSE Ok(value)
      [] OTHER ->
            IF value.t \notin {"map", "list"}
               /\ (~node.allowFalse \/ Truthy(value))
            THEN Raise("InvalidType", path) ELSE Ok(value)

(***************************************************************************)
(* Closures.  A closure of a node is a callable given by the caller, here  *)
(* one of the consequences of ExprBuilder (thenUnset, thenInvalid,         *)
(* ThenEmptyArray), or a closure compiled by ExprBuilder.buildExpressions. *)
(***************************************************************************)
Callable(f) == [kind |-> "callable", f |-> f, ifPart |-> "", thenPart |-> ""]
Expr(ifPart, thenPart) ==
    [kind |-> "ExprBuilder", f |-> "", ifPart |-> ifPart, thenPart |-> thenPart]

\* the closures of ExprBuilder.thenUnset, thenInvalid and ThenEmptyArray
CallThen(f, v) ==
    CASE f = "thenUnset" -> Raise("UnsetKey", <<>>)
      [] f = "thenInvalid" -> Raise("InvalidArgument", <<>>)
      [] f = "ThenEmptyArray" -> Ok(EmptyDict)

\* ExprBuilder.buildExpressions: every ExprBuilder of the list is replaced
\* by a closure over the list and the loop variable i; an entry that is a
\* callable is kept
buildExpressions(expressions) ==
    [i \in DOMAIN expressions |->
        IF expressions[i].kind = "ExprBuilder"
        THEN [kind |-> "closure", f |-> "", ifPart |-> "", thenPart |-> ""]
        ELSE expressions[i]]

\* closure(v).  A compiled closure reads expressions[i] when it is called:
\* i is then the last index and expressions[i] a function, which has no
\* ifPart
ApplyClosure(closure, v) ==
    IF closure.kind = "callable" THEN CallThen(closure.f, v)
    ELSE Raise("AttributeError", <<>>)

(***************************************************************************)
(* normalize.  A result is an outcome with the field inp: the object the   *)
(* caller passed, as the call left it.                                     *)
(***************************************************************************)
WithInp(r, inp) == [err |-> r.err, path |-> r.path, val |-> r.val, inp |-> inp]

\* the caller's list or dict after the dict d made of it was changed
Back(orig, d) ==
    IF IsList(orig)
    THEN List([i \in DOMAIN orig.l |->
                   IF IntKey(i - 1) \in DOMAIN d.m THEN d.m[IntKey(i - 1)]
                   ELSE orig.l[i]])
    ELSE d

\* for closure in self._normalizationClosures: value = closure(value)
RECURSIVE NormalizationClosures(_, _)
NormalizationClosures(closures, r) ==
    IF closures = <<>> \/ ~IsOk(r) THEN r
    ELSE NormalizationClosures(Tail(closures), ApplyClosure(Head(closures), r.val))

\* the same loop leaving at the first match
RECURSIVE EquivalentValues_break(_, _)
EquivalentValues_break(equivalents, value) ==
    IF equivalents = <<>> THEN value
    ELSE IF PyEq(Head(equivalents)[1], value) THEN Head(equivalents)[2]
    ELSE EquivalentValues_break(Tail(equivalents), value)

\* for data in self._equivalentValues: if data[0] == value: value = data[1]
RECURSIVE EquivalentValues(_, _)
EquivalentValues(equivalents, value) ==
    IF equivalents = <<>> THEN value
    ELSE EquivalentValues(Tail(equivalents),
                          IF PyEq(Head(equivalents)[1], value)
                          THEN Head(equivalents)[2] ELSE value)

\* the dict key a value is used as (k = v[self._keyAttribute])
KeyOfValue(x) ==
    CASE x.t = "str" -> x.s
      [] x.t = "int" -> IntKey(x.n)
      [] x.t = "bool" -> IntKey(IF x.b THEN 1 ELSE 0)
      [] OTHER -> <<"N", "o", "n", "e">>

\* isAssoc = list(value.keys()) != list(range(len(value)))
IsAssoc(d) ==
    DOMAIN d.m # {IntKey(i) : i \in 0..(Cardinality(DOMAIN d.m) - 1)}

RECURSIVE normalize(_, _, _)
RECURSIVE NormalizeChildren(_, _, _, _, _)
RECURSIVE NormalizeElements(_, _, _, _, _, _)

\* the loop of ArrayNode._normalizeValue over self._children: value is the
\* dict being read, normalized the dict being built, valueCopy the keys left
NormalizeChildren(children, path, value, normalized, valueCopy) ==
    IF children = <<>>
    THEN [err |-> "none", path |-> <<>>, val |-> normalized,
          inp |-> value, rest |-> valueCopy]
    ELSE LET name == Head(children).name
         IN IF name \notin valueCopy
            THEN NormalizeChildren(Tail(children), path, value, normalized,
                                   valueCopy)
            ELSE LET r == normalize(Head(children), Append(path, name),
                                    value.m[name])
                     value2 == Dict(With(value.m, name, r.inp))
                 IN IF ~IsOk(r)
                    THEN [err |-> r.err, path |-> r.path, val |-> normalized,
                          inp |-> value2, rest |-> valueCopy]
                    ELSE NormalizeChildren(Tail(children), path, value2,
                                           With(normalized, name, r.val),
                                           valueCopy \ {name})

\* a variant that accepts the keys that are no declared child
ArrayNode_normalizeValue_anyKey(node, path, value) ==
    IF IsFalse(value) THEN WithInp(Ok(value), value)
    ELSE IF ~IsDict(ToDict(value))
    THEN WithInp(Raise("AssertionError", <<>>), value)
    ELSE LET remapped == _remapXml(node, ToDict(value))
         IN IF ~IsOk(remapped)
            THEN WithInp(remapped, Back(value, remapped.val))
            ELSE LET c == NormalizeChildren(node.children, path, remapped.val,
                                            EmptyFcn, DOMAIN remapped.val.m)
                 IN IF ~IsOk(c)
                    THEN WithInp(Raise(c.err, c.path), Back(value, c.inp))
                    ELSE WithInp(Ok(Dict(c.val)), Back(value, c.inp))

\* ArrayNode._normalizeValue
ArrayNode_normalizeValue(node, path, value) ==
    IF IsFalse(value) THEN WithInp(Ok(value), value)
    ELSE IF ~IsDict(ToDict(value))
    THEN WithInp(Raise("AssertionError", <<>>), value)
    ELSE LET remapped == _remapXml(node, ToDict(value))
         IN IF ~IsOk(remapped)
            THEN WithInp(remapped, Back(value, remapped.val))
            ELSE LET c == NormalizeChildren(node.children, path, remapped.val,
                                            EmptyFcn, DOMAIN remapped.val.m)
                 IN IF ~IsOk(c)
                    THEN WithInp(Raise(c.err, c.path), Back(value, c.inp))
                    ELSE IF c.rest # {} /\ ~node.ignoreExtraKeys
                    THEN WithInp(Raise("InvalidConfiguration", path),
                                 Back(value, c.inp))
                    ELSE WithInp(Ok(Dict(c.val)), Back(value, c.inp))

\* the loop of PrototypedArrayNode._normalizeValue over value.items(): keys
\* are the keys still to visit, i the index of the first of them
NormalizeElements(node, path, value, keys, i, normalized) ==
    IF keys = <<>> THEN WithInp(Ok(Dict(normalized)), value)
    ELSE
    LET k == Head(keys)
        v == value.m[k]
        isAssoc == IsAssoc(value)
        keyed == node.keyAttribute # None /\ v.t \in {"map", "list"}
        ka == IF keyed THEN node.keyAttribute.s ELSE <<>>
        v1 == IF keyed THEN ToDict(v) ELSE v
        hasKey == keyed /\ ka \in DOMAIN v1.m
        k2 == IF hasKey THEN KeyOfValue(v1.m[ka]) ELSE k
        \* del v[self._keyAttribute]
        v2 == IF hasKey /\ node.removeKeyAttribute
              THEN Dict(Without(v1.m, ka)) ELSE v1
        onlyValue == hasKey /\ DOMAIN v2.m = {<<"v", "a", "l", "u", "e">>}
        v3 == IF onlyValue THEN v2.m[<<"v", "a", "l", "u", "e">>] ELSE v2
        \* the element of the caller's dict, given what became of v3
        element(x) ==
            IF ~keyed THEN x
            ELSE Back(v, IF onlyValue
                         THEN Dict(With(v2.m, <<"v", "a", "l", "u", "e">>, x))
                         ELSE x)
        value2(x) == Dict(With(value.m, k, element(x)))
    IN  IF keyed /\ ~hasKey /\ k \in IntKeys /\ ~isAssoc
        THEN WithInp(Raise("InvalidConfiguration", path), value)
        ELSE IF hasKey /\ v1.m[ka].t \in {"map", "list"}
        THEN WithInp(Raise("TypeError", <<>>), value)
        ELSE IF keyed /\ k2 \in DOMAIN normalized
        THEN WithInp(Raise("DuplicateKey", path), value2(v3))
        ELSE LET r == normalize(node.prototype[1], Append(path, k2), v3)
                 key == IF node.keyAttribute # None \/ isAssoc
                        THEN k2 ELSE IntKey(i)
             IN IF ~IsOk(r) THEN WithInp(r, value2(r.inp))
                ELSE NormalizeElements(node, path, value2(r.inp), Tail(keys),
                                       i + 1, With(normalized, key, r.val))

\* PrototypedArrayNode._normalizeValue
PrototypedArrayNode_normalizeValue(node, path, value) ==
    IF IsFalse(value) THEN WithInp(Ok(value), value)
    ELSE IF ~IsDict(ToDict(value))
    THEN WithInp(Raise("AssertionError", <<>>), value)
    ELSE LET remapped == _remapXml(node, ToDict(value))
         IN IF ~IsOk(remapped)
            THEN WithInp(remapped, Back(value, remapped.val))
            ELSE LET e == NormalizeElements(node, path, remapped.val,
                                            KeysOf(DOMAIN remapped.val.m), 0,
                                            EmptyFcn)
                 IN WithInp(e, Back(value, e.inp))

\* _normalizeValue of each node class
_normalizeValue(node, path, value) ==
    CASE node.kind = "array" -> ArrayNode_normalizeValue(node, path, value)
      [] node.kind = "prototype" ->
            PrototypedArrayNode_normalizeValue(node, path, value)
      [] OTHER -> WithInp(Ok(value), value)

\* BaseNode.normalize
normalize(node, path, value) ==
    LET pre == PreNormalize(node, value)
        closed == NormalizationClosures(node.normalizationClosures, Ok(pre))
    IN  IF ~IsOk(closed) THEN WithInp(closed, pre)
        ELSE LET v == EquivalentValues(node.equivalentValues, closed.val)
                 typed == _validateType(node, path, v)
             IN IF ~IsOk(typed) THEN WithInp(typed, pre)
                ELSE LET n == _normalizeValue(node, path, v)
                     IN \* the value normalized is the caller's object unless
                        \* a closure or an equivalence replaced it
                        IF v = pre THEN n ELSE WithInp(n, pre)

(***************************************************************************)
(* merge                                                                   *)
(***************************************************************************)
\* the items of a dict an array node built, in the order it inserted them:
\* the declared children first
ItemOrder(node, S) ==
    LET names == [i \in DOMAIN node.children |-> node.children[i].name]
    IN FilterSeq(names, S) \o FilterSeq(KeyOrder, S \ SeqRange(names))

\* index = 0; while index in leftSide: index += 1
FreeIndex(leftSide) ==
    CHOOSE i \in 0..Cardinality(DOMAIN leftSide) :
        /\ IntKey(i) \notin DOMAIN leftSide
        /\ \A j \in 0..(i - 1) : IntKey(j) \in DOMAIN leftSide

RECURSIVE merge(_, _, _, _)
RECURSIVE ArrayNode_mergeLoop(_, _, _, _, _)
RECURSIVE PrototypedArrayNode_mergeLoop(_, _, _, _, _)

\* the loop of ArrayNode._mergeValues over rightSide.items()
ArrayNode_mergeLoop(node, path, leftSide, rightSide, keys) ==
    IF keys = <<>> THEN Ok(Dict(leftSide))
    ELSE LET k == Head(keys)
             v == rightSide[k]
         IN IF k \notin DOMAIN leftSide
            THEN IF ~node.allowNewKeys
                 THEN Raise("InvalidConfiguration", path)
                 ELSE ArrayNode_mergeLoop(node, path, With(leftSide, k, v),
                                          rightSide, Tail(keys))
            ELSE IF k \notin ChildNames(node)
            THEN Raise("RuntimeException", <<>>)
            ELSE LET r == merge(Child(node, k), Append(path, k),
                                leftSide[k], v)
                 IN IF ~IsOk(r) THEN r
                    ELSE ArrayNode_mergeLoop(node, path,
                                             With(leftSide, k, r.val),
                                             rightSide, Tail(keys))

\* a variant that never merges deeply: the right side replaces the left
ArrayNode_mergeValues_shallow(node, path, leftSide, rightSide) ==
    IF IsFalse(rightSide) THEN Ok(False) ELSE Ok(rightSide)

\* ArrayNode._mergeValues
ArrayNode_mergeValues(node, path, leftSide, rightSide) ==
    IF IsFalse(rightSide) THEN Ok(False)
    ELSE IF ~Truthy(leftSide) \/ ~node.performDeepMerging THEN Ok(rightSide)
    ELSE IF ~IsDict(leftSide) \/ ~IsDict(ToDict(rightSide))
    THEN Raise("TypeError", <<>>)
    ELSE ArrayNode_mergeLoop(node, path, leftSide.m, ToDict(rightSide).m,
                             ItemOrder(node, DOMAIN ToDict(rightSide).m))

\* the loop of PrototypedArrayNode._mergeValues over rightSide.items()
PrototypedArrayNode_mergeLoop(node, path, leftSide, rightSide, keys) ==
    IF keys = <<>> THEN Ok(Dict(leftSide))
    ELSE LET k == Head(keys)
             v == rightSide[k]
         IN IF node.keyAttribute = None
            THEN PrototypedArrayNode_mergeLoop(
                     node, path,
                     With(leftSide, IntKey(FreeIndex(leftSide)), v),
                     rightSide, Tail(keys))
            ELSE IF k \notin DOMAIN leftSide
            THEN IF ~node.allowNewKeys
                 THEN Raise("InvalidConfiguration", path)
                 ELSE PrototypedArrayNode_mergeLoop(
                          node, path, With(leftSide, k, v), rightSide,
                          Tail(keys))
            ELSE LET r == merge(node.prototype[1], Append(path, k),
                                leftSide[k], v)
                 IN IF ~IsOk(r) THEN r
                    ELSE PrototypedArrayNode_mergeLoop(
                             node, path, With(leftSide, k, r.val), rightSide,
                             Tail(keys))

\* the same with a sentinel that no later value replaces
PrototypedArrayNode_mergeValues_sticky(node, path, leftSide, rightSide) ==
    IF IsFalse(rightSide) \/ IsFalse(leftSide) THEN Ok(False)
    ELSE IF ~Truthy(leftSide) \/ ~node.performDeepMerging THEN Ok(rightSide)
    ELSE IF ~IsDict(ToDict(leftSide)) \/ ~IsDict(ToDict(rightSide))
    THEN Raise("TypeError", <<>>)
    ELSE PrototypedArrayNode_mergeLoop(
             node, path, ToDict(leftSide).m, ToDict(rightSide).m,
             KeysOf(DOMAIN ToDict(rightSide).m))

\* PrototypedArrayNode._mergeValues
PrototypedArrayNode_mergeValues(node, path, leftSide, rightSide) ==
    IF IsFalse(rightSide) THEN Ok(False)
    ELSE IF ~Truthy(leftSide) \/ ~node.performDeepMerging THEN Ok(rightSide)
    ELSE IF ~IsDict(ToDict(leftSide)) \/ ~IsDict(ToDict(rightSide))
    THEN Raise("TypeError", <<>>)
    ELSE PrototypedArrayNode_mergeLoop(
             node, path, ToDict(leftSide).m, ToDict(rightSide).m,
             KeysOf(DOMAIN ToDict(rightSide).m))

\* _mergeValues of each node class
_mergeValues(node, path, leftSide, rightSide) ==
    CASE node.kind = "array" ->
            ArrayNode_mergeValues(node, path, leftSide, rightSide)
      [] node.kind = "prototype" ->
            PrototypedArrayNode_mergeValues(node, path, leftSide, rightSide)
      [] OTHER -> Ok(rightSide)

\* the same without the test of allowOverwrite
merge_overwriting(node, path, leftSide, rightSide) ==
    IF ~IsOk(_validateType(node, path, leftSide))
    THEN _validateType(node, path, leftSide)
    ELSE IF ~IsOk(_validateType(node, path, rightSide))
    THEN _validateType(node, path, rightSide)
    ELSE _mergeValues(node, path, leftSide, rightSide)

\* BaseNode.merge
merge(node, path, leftSide, rightSide) ==
    IF ~node.allowOverwrite THEN Raise("ForbiddenOverwrite", path)
    ELSE IF ~IsOk(_validateType(node, path, leftSide))
    THEN _validateType(node, path, leftSide)
    ELSE IF ~IsOk(_validateType(node, path, rightSide))
    THEN _validateType(node, path, rightSide)
    ELSE _mergeValues(node, path, leftSide, rightSide)

(***************************************************************************)
(* Default values.                                                         *)
(***************************************************************************)
RECURSIVE hasDefaultValue(_)
RECURSIVE getDefaultValue(_)
RECURSIVE ArrayNode_defaultLoop(_, _)

\* hasDefaultValue of each node class
hasDefaultValue(node) ==
    CASE node.kind = "array" -> node.addIfNotSet
      [] node.kind = "prototype" -> TRUE
      [] OTHER -> node.defaultValueSet

\* the loop of ArrayNode.getDefaultValue over self._children
ArrayNode_defaultLoop(children, default) ==
    IF children = <<>> THEN default
    ELSE ArrayNode_defaultLoop(
             Tail(children),
             IF hasDefaultValue(Head(children))
             THEN With(default, Head(children).name,
                       getDefaultValue(Head(children)))
             ELSE default)

\* getDefaultValue of each node class
getDefaultValue(node) ==
    CASE node.kind = "array" ->
            Dict(ArrayNode_defaultLoop(node.children, EmptyFcn))
      [] node.kind = "prototype" ->
            IF node.defaultChildren # <<>>
            THEN LET default == IF hasDefaultValue(node.prototype[1])
                                THEN getDefaultValue(node.prototype[1])
                                ELSE EmptyDict
                     key(i) == IF node.keyAttribute = None THEN IntKey(i - 1)
                               ELSE KeyOfValue(node.defaultChildren[i])
                 IN Dict([k \in {key(i) : i \in DOMAIN node.defaultChildren}
                              |-> default])
            ELSE node.defaultValue
      [] OTHER -> node.defaultValue

(***************************************************************************)
(* finalize                                                                *)
(***************************************************************************)
\* The exception classes are those of the package's exception module: the
\* kinds that are a DefinitionException, which finalize re-raises as they are
IsDefinitionException(kind) ==
    kind \in {"Definition", "InvalidType", "InvalidConfiguration",
              "ForbiddenOverwrite", "DuplicateKey", "UnsetKey"}

RECURSIVE finalize(_, _, _)
RECURSIVE ArrayNode_finalizeLoop(_, _, _, _)
RECURSIVE PrototypedArrayNode_finalizeLoop(_, _, _, _)

\* a variant that gives an absent child no default value
ArrayNode_finalizeLoop_noDefault(node, path, children, value) ==
    IF children = <<>> THEN Ok(Dict(value))
    ELSE LET child == Head(children)
             name == child.name
         IN IF name \notin DOMAIN value
            THEN IF child.required
                 THEN Raise("InvalidConfiguration", path)
                 ELSE ArrayNode_finalizeLoop(node, path, Tail(children), value)
            ELSE LET r == finalize(child, Append(path, name), value[name])
                 IN IF r.err = "UnsetKey"
                    THEN ArrayNode_finalizeLoop(node, path, Tail(children),
                                                Without(value, name))
                    ELSE IF ~IsOk(r) THEN r
                    ELSE ArrayNode_finalizeLoop(node, path, Tail(children),
                                                With(value, name, r.val))

\* the loop of ArrayNode._finalizeValue over self._children
ArrayNode_finalizeLoop(node, path, children, value) ==
    IF children = <<>> THEN Ok(Dict(value))
    ELSE LET child == Head(children)
             name == child.name
         IN IF name \notin DOMAIN value
            THEN IF child.required
                 THEN Raise("InvalidConfiguration", path)
                 ELSE ArrayNode_finalizeLoop(
                          node, path, Tail(children),
                          IF hasDefaultValue(child)
                          THEN With(value, name, getDefaultValue(child))
                          ELSE value)
            ELSE LET r == finalize(child, Append(path, name), value[name])
                 IN IF r.err = "UnsetKey"
                    THEN ArrayNode_finalizeLoop(node, path, Tail(children),
                                                Without(value, name))
                    ELSE IF ~IsOk(r) THEN r
                    ELSE ArrayNode_finalizeLoop(node, path, Tail(children),
                                                With(value, name, r.val))

\* a variant that keeps a False value instead of raising the unset signal
ArrayNode_finalizeValue_keepFalse(node, path, value) ==
    IF IsFalse(value) THEN Ok(False)
    ELSE IF ~IsDict(value) THEN Raise("TypeError", <<>>)
    ELSE ArrayNode_finalizeLoop(node, path, node.children, value.m)

\* ArrayNode._finalizeValue
ArrayNode_finalizeValue(node, path, value) ==
    IF IsFalse(value) THEN Raise("UnsetKey", path)
    ELSE IF ~IsDict(value) THEN Raise("TypeError", <<>>)
    ELSE ArrayNode_finalizeLoop(node, path, node.children, value.m)

\* the loop of PrototypedArrayNode._finalizeValue over value.items()
PrototypedArrayNode_finalizeLoop(node, path, keys, value) ==
    IF keys = <<>>
    THEN IF Cardinality(DOMAIN value) < node.minNumberOfElements
         THEN Raise("InvalidConfiguration", path)
         ELSE Ok(Dict(value))
    ELSE LET k == Head(keys)
             r == finalize(node.prototype[1], Append(path, k), value[k])
         IN IF r.err = "UnsetKey"
            THEN PrototypedArrayNode_finalizeLoop(node, path, Tail(keys),
                                                  Without(value, k))
            ELSE IF ~IsOk(r) THEN r
            ELSE PrototypedArrayNode_finalizeLoop(node, path, Tail(keys),
                                                  With(value, k, r.val))

\* PrototypedArrayNode._finalizeValue
PrototypedArrayNode_finalizeValue(node, path, value) ==
    IF IsFalse(value) THEN Raise("UnsetKey", path)
    ELSE IF ~IsDict(value) THEN Raise("AssertionError", <<>>)
    ELSE PrototypedArrayNode_finalizeLoop(node, path, KeysOf(DOMAIN value.m),
                                          value.m)

\* VariableNode._finalizeValue
VariableNode_finalizeValue(node, path, value) ==
    IF ~node.allowEmptyValue /\ ~Truthy(value)
    THEN Raise("InvalidConfiguration", path)
    ELSE Ok(value)

\* NumericNode._finalizeValue: "self._min and value < self._min" tests the
\* truth value of the bound first
NumericNode_finalizeValue(node, path, value) ==
    IF ~IsOk(VariableNode_finalizeValue(node, path, value))
    THEN VariableNode_finalizeValue(node, path, value)
    ELSE IF \/ Truthy(node.min) /\ value.n < node.min.n
            \/ Truthy(node.max) /\ value.n > node.max.n
    THEN Raise("InvalidConfiguration", path)
    ELSE Ok(value)

\* _finalizeValue of each node class
_finalizeValue(node, path, value) ==
    CASE node.kind = "array" -> ArrayNode_finalizeValue(node, path, value)
      [] node.kind = "integer" -> NumericNode_finalizeValue(node, path, value)
      [] node.kind = "prototype" ->
            PrototypedArrayNode_finalizeValue(node, path, value)
      [] OTHER -> VariableNode_finalizeValue(node, path, value)

\* for closure in self._finalValidationClosures, with its try/except
RECURSIVE FinalValidationClosures(_, _, _)
FinalValidationClosures(closures, path, r) ==
    IF closures = <<>> \/ ~IsOk(r) THEN r
    ELSE LET c == ApplyClosure(Head(closures), r.val)
         IN FinalValidationClosures(
                Tail(closures), path,
                IF IsOk(c) \/ IsDefinitionException(c.err) THEN c
                ELSE Raise("InvalidConfiguration", path))

\* BaseNode.finalize
finalize(node, path, value) ==
    IF ~IsOk(_validateType(node, path, value))
    THEN _validateType(node, path, value)
    ELSE FinalValidationClosures(node.finalValidationClosures, path,
                                 _finalizeValue(node, path, value))

(***************************************************************************)
(* The tree as a call leaves it.  A PrototypedArrayNode calls              *)
(* self._prototype.setName(k) before it normalizes, merges or finalizes    *)
(* the element of key k: the operators below follow the calls above and    *)
(* give the node with the names its prototype nodes were left with.        *)
(***************************************************************************)
\* VariableNode.setName, ArrayNode.setName
setName(node, name) == [node EXCEPT !.name = name]

RECURSIVE HasPrototype(_)
HasPrototype(node) ==
    \/ node.kind = "prototype"
    \/ \E n \in DOMAIN node.children : HasPrototype(node.children[n])

RECURSIVE TreeAfter_normalize(_, _, _)
RECURSIVE TreeAfter_NormalizeChildren(_, _, _)
RECURSIVE TreeAfter_NormalizeElements(_, _, _, _, _, _, _)

\* the children after the loop of ArrayNode._normalizeValue, which ends at
\* the first child whose normalize raises
TreeAfter_NormalizeChildren(children, path, value) ==
    IF children = <<>> THEN <<>>
    ELSE LET child == Head(children)
             name == child.name
         IN IF name \notin DOMAIN value.m
            THEN <<child>> \o TreeAfter_NormalizeChildren(Tail(children), path,
                                                          value)
            ELSE <<TreeAfter_normalize(child, Append(path, name),
                                       value.m[name])>>
                 \o IF IsOk(normalize(child, Append(path, name),
                                      value.m[name]))
                    THEN TreeAfter_NormalizeChildren(Tail(children), path,
                                                     value)
                    ELSE Tail(children)

\* the prototype node after the loop of PrototypedArrayNode._normalizeValue:
\* setName(k) comes after the checks of the key attribute and before
\* self._prototype.normalize(v); normalized is the set of the keys stored
TreeAfter_NormalizeElements(node, path, value, keys, i, normalized, proto) ==
    IF keys = <<>> THEN proto
    ELSE
    LET k == Head(keys)
        v == value.m[k]
        keyed == node.keyAttribute # None /\ v.t \in {"map", "list"}
        ka == IF keyed THEN node.keyAttribute.s ELSE <<>>
        v1 == IF keyed THEN ToDict(v) ELSE v
        hasKey == keyed /\ ka \in DOMAIN v1.m
        k2 == IF hasKey THEN KeyOfValue(v1.m[ka]) ELSE k
        v2 == IF hasKey /\ node.removeKeyAttribute
              THEN Dict(Without(v1.m, ka)) ELSE v1
        v3 == IF hasKey /\ DOMAIN v2.m = {<<"v", "a", "l", "u", "e">>}
              THEN v2.m[<<"v", "a", "l", "u", "e">>] ELSE v2
        raised == \/ keyed /\ ~hasKey /\ k \in IntKeys /\ ~IsAssoc(value)
                  \/ hasKey /\ v1.m[ka].t \in {"map", "list"}
                  \/ keyed /\ k2 \in normalized
        key == IF node.keyAttribute # None \/ IsAssoc(value)
               THEN k2 ELSE IntKey(i)
        named == TreeAfter_normalize(setName(proto, k2), Append(path, k2), v3)
    IN  IF raised THEN proto
        ELSE IF ~IsOk(normalize(node.prototype[1], Append(path, k2), v3))
        THEN named
        ELSE TreeAfter_NormalizeElements(node, path, value, Tail(keys), i + 1,
                                         normalized \cup {key}, named)

\* the node after BaseNode.normalize
TreeAfter_normalize(node, path, value) ==
    IF ~HasPrototype(node) THEN node
    ELSE
    LET pre == PreNormalize(node, value)
        closed == NormalizationClosures(node.normalizationClosures, Ok(pre))
        v == EquivalentValues(node.equivalentValues, closed.val)
        remapped == _remapXml(node, ToDict(v))
    IN  IF ~IsOk(closed) THEN node
        ELSE IF ~IsOk(_validateType(node, path, v)) THEN node
        ELSE IF IsFalse(v) \/ ~IsDict(ToDict(v)) THEN node
        ELSE IF ~IsOk(remapped) THEN node
        ELSE IF node.kind = "array"
        THEN [node EXCEPT !.children =
                 TreeAfter_NormalizeChildren(@, path, remapped.val)]
        ELSE [node EXCEPT !.prototype =
                 <<TreeAfter_NormalizeElements(
                       node, path, remapped.val,
                       KeysOf(DOMAIN remapped.val.m), 0, {}, @[1])>>]

RECURSIVE TreeAfter_merge(_, _, _, _)
RECURSIVE TreeAfter_ArrayNode_mergeLoop(_, _, _, _, _)
RECURSIVE TreeAfter_PrototypedArrayNode_mergeLoop(_, _, _, _, _)

\* the node after the loop of ArrayNode._mergeValues
TreeAfter_ArrayNode_mergeLoop(node, path, leftSide, rightSide, keys) ==
    IF keys = <<>> THEN node
    ELSE LET k == Head(keys)
             n == CHOOSE n \in DOMAIN node.children :
                      node.children[n].name = k
         IN IF k \notin DOMAIN leftSide
            THEN IF ~node.allowNewKeys THEN node
                 ELSE TreeAfter_ArrayNode_mergeLoop(node, path, leftSide,
                                                    rightSide, Tail(keys))
            ELSE IF k \notin ChildNames(node) THEN node
            ELSE LET merged ==
                         [node EXCEPT !.children[n] =
                             TreeAfter_merge(@, Append(path, k), leftSide[k],
                                             rightSide[k])]
                 IN IF ~IsOk(merge(node.children[n], Append(path, k),
                                   leftSide[k], rightSide[k]))
                    THEN merged
                    ELSE TreeAfter_ArrayNode_mergeLoop(
                             merged, path, leftSide, rightSide, Tail(keys))

\* the node after the loop of PrototypedArrayNode._mergeValues, which sets
\* the name only for a key that both sides have
TreeAfter_PrototypedArrayNode_mergeLoop(node, path, leftSide, rightSide, keys) ==
    IF keys = <<>> \/ node.keyAttribute = None THEN node
    ELSE LET k == Head(keys)
         IN IF k \notin DOMAIN leftSide
            THEN IF ~node.allowNewKeys THEN node
                 ELSE TreeAfter_PrototypedArrayNode_mergeLoop(
                          node, path, leftSide, rightSide, Tail(keys))
            ELSE LET merged ==
                         [node EXCEPT !.prototype[1] =
                             TreeAfter_merge(setName(@, k), Append(path, k),
                                             leftSide[k], rightSide[k])]
                 IN IF ~IsOk(merge(node.prototype[1], Append(path, k),
                                   leftSide[k], rightSide[k]))
                    THEN merged
                    ELSE TreeAfter_PrototypedArrayNode_mergeLoop(
                             merged, path, leftSide, rightSide, Tail(keys))

\* the node after BaseNode.merge
TreeAfter_merge(node, path, leftSide, rightSide) ==
    IF ~HasPrototype(node) THEN node
    ELSE IF ~node.allowOverwrite THEN node
    ELSE IF ~IsOk(_validateType(node, path, leftSide)) THEN node
    ELSE IF ~IsOk(_validateType(node, path, rightSide)) THEN node
    ELSE IF IsFalse(rightSide) THEN node
    ELSE IF ~Truthy(leftSide) \/ ~node.performDeepMerging THEN node
    ELSE IF ~IsDict(ToDict(leftSide)) \/ ~IsDict(ToDict(rightSide)) THEN node
    ELSE IF node.kind = "array"
    THEN IF ~IsDict(leftSide) THEN node
         ELSE TreeAfter_ArrayNode_mergeLoop(
                  node, path, leftSide.m, ToDict(rightSide).m,
                  ItemOrder(node, DOMAIN ToDict(rightSide).m))
    ELSE TreeAfter_PrototypedArrayNode_mergeLoop(
             node, path, ToDict(leftSide).m, ToDict(rightSide).m,
             KeysOf(DOMAIN ToDict(rightSide).m))

RECURSIVE TreeAfter_finalize(_, _, _)
RECURSIVE TreeAfter_ArrayNode_finalizeLoop(_, _, _, _)
RECURSIVE TreeAfter_PrototypedArrayNode_finalizeLoop(_, _, _, _, _)

\* the children after the loop of ArrayNode._finalizeValue
TreeAfter_ArrayNode_finalizeLoop(node, path, children, value) ==
    IF children = <<>> THEN <<>>
    ELSE LET child == Head(children)
             name == child.name
             r == finalize(child, Append(path, name), value[name])
         IN IF name \notin DOMAIN value
            THEN IF child.required THEN children
                 ELSE <<child>> \o TreeAfter_ArrayNode_finalizeLoop(
                                       node, path, Tail(children), value)
            ELSE <<TreeAfter_finalize(child, Append(path, name),
                                      value[name])>>
                 \o IF IsOk(r) \/ r.err = "UnsetKey"
                    THEN TreeAfter_ArrayNode_finalizeLoop(
                             node, path, Tail(children), value)
                    ELSE Tail(children)

\* the prototype node after the loop of PrototypedArrayNode._finalizeValue
TreeAfter_PrototypedArrayNode_finalizeLoop(node, path, keys, value, proto) ==
    IF keys = <<>> THEN proto
    ELSE LET k == Head(keys)
             r == finalize(node.prototype[1], Append(path, k), value[k])
             named == TreeAfter_finalize(setName(proto, k), Append(path, k),
                                         value[k])
         IN IF IsOk(r) \/ r.err = "UnsetKey"
            THEN TreeAfter_PrototypedArrayNode_finalizeLoop(
                     node, path, Tail(keys), value, named)
            ELSE named

\* the node after BaseNode.finalize
TreeAfter_finalize(node, path, value) ==
    IF ~HasPrototype(node) THEN node
    ELSE IF ~IsOk(_validateType(node, path, value)) THEN node
    ELSE IF IsFalse(value) \/ ~IsDict(value) THEN node
    ELSE IF node.kind = "array"
    THEN [node EXCEPT !.children =
             TreeAfter_ArrayNode_finalizeLoop(node, path, @, value.m)]
    ELSE [node EXCEPT !.prototype =
             <<TreeAfter_PrototypedArrayNode_finalizeLoop(
                   node, path, KeysOf(DOMAIN value.m), value.m, @[1])>>]

(***************************************************************************)
(* The builder: definitions (src/definition/builder.py).  An attribute     *)
(* that holds None or a sub-builder is <<>> or <<sub-builder>>.            *)
(***************************************************************************)
\* NodeDefinition.__init__ and ArrayNodeDefinition.__init__
NodeDefinition(type, name) ==
    [ type |-> type,
      name |-> name,
      normalization |-> <<>>,
      validation |-> <<>>,
      defaultValue |-> None,
      default |-> FALSE,
      required |-> FALSE,
      merge |-> <<>>,
      allowEmptyValue |-> IF type = "array" THEN True ELSE None,
      nullEquivalent |-> CASE type = "array" -> EmptyDict
                           [] type = "boolean" -> True
                           [] OTHER -> None,
      trueEquivalent |-> IF type = "array" THEN EmptyDict ELSE True,
      falseEquivalent |-> False,
      \* ArrayNodeDefinition
      performDeepMerging |-> TRUE,
      ignoreExtraKeys |-> None,
      children |-> <<>>,
      prototype |-> <<>>,
      atLeastOne |-> FALSE,
      allowNewKeys |-> None,
      key |-> None,
      removeKeyItem |-> None,
      addDefaults |-> FALSE,
      addDefaultChildren |-> False,
      normalizeKeys |-> TRUE ]

\* MergeBuilder.__init__
MergeBuilder == [allowFalse |-> FALSE, allowOverwrite |-> TRUE]
\* NormalizationBuilder.__init__
NormalizationBuilder == [befores |-> <<>>, remappings |-> <<>>]
\* ValidationBuilder.__init__
ValidationBuilder == [rules |-> <<>>]

\* NodeDefinition.merge(), normalization(), validation(): created on first use
mergeOf(def) == IF def.merge = <<>> THEN MergeBuilder ELSE def.merge[1]
normalizationOf(def) ==
    IF def.normalization = <<>> THEN NormalizationBuilder
    ELSE def.normalization[1]
validationOf(def) ==
    IF def.validation = <<>> THEN ValidationBuilder ELSE def.validation[1]

\* the methods of the definitions
isRequired(def) == [def EXCEPT !.required = TRUE]
defaultValue(def, value) ==
    [def EXCEPT !.default = TRUE, !.defaultValue = value]
cannotBeEmpty(def) == [def EXCEPT !.allowEmptyValue = False]
cannotBeOverwritten(def) ==
    [def EXCEPT !.merge = <<[mergeOf(def) EXCEPT !.allowOverwrite = FALSE]>>]
canBeUnset(def) ==
    [def EXCEPT !.merge = <<[mergeOf(def) EXCEPT !.allowFalse = TRUE]>>]
addDefaultsIfNotSet(def) == [def EXCEPT !.addDefaults = TRUE]
\* ArrayNodeDefinition.addDefaultChildrenIfNoneSet: the argument is not used
addDefaultChildrenIfNoneSet(def, children) ==
    [def EXCEPT !.addDefaultChildren = True]
requiresAtLeastOneElement(def) == [def EXCEPT !.atLeastOne = TRUE]
disallowNewKeysInSubsequentConfigs(def) == [def EXCEPT !.allowNewKeys = False]
performNoDeepMerging(def) == [def EXCEPT !.performDeepMerging = FALSE]
ignoreExtraKeys(def) == [def EXCEPT !.ignoreExtraKeys = True]
normalizeKeys(def, boolean) == [def EXCEPT !.normalizeKeys = boolean]
treatNullLike(def, value) == [def EXCEPT !.nullEquivalent = value]
treatTrueLike(def, value) == [def EXCEPT !.trueEquivalent = value]
treatFalseLike(def, value) == [def EXCEPT !.falseEquivalent = value]
KEY_ENABLED == <<"e", "n", "a", "b", "l", "e", "d">>
\* the three treat...Like calls of canBeEnabled and canBeDisabled
TreatLikeEnabled(def) ==
    treatNullLike(treatTrueLike(treatFalseLike(def, Dict(KEY_ENABLED :> False)),
                                Dict(KEY_ENABLED :> True)),
                  Dict(KEY_ENABLED :> True))
\* self.children().booleanNode('enabled').defaultFalse()
canBeEnabled(def) ==
    [TreatLikeEnabled(def) EXCEPT
        !.children = Append(@, defaultValue(NodeDefinition("boolean", KEY_ENABLED),
                                            False))]
\* self.children().booleanNode('enabled').defaultFalse()
canBeDisabled(def) ==
    [TreatLikeEnabled(def) EXCEPT
        !.children = Append(@, defaultValue(NodeDefinition("boolean", KEY_ENABLED),
                                            False))]
useAttributeAsKey(def, name) ==
    [def EXCEPT !.key = Str(name), !.removeKeyItem = True]
fixXmlConfig(def, singular, plural) ==
    [def EXCEPT !.normalization =
        <<[normalizationOf(def) EXCEPT
              !.remappings = Append(@, <<singular, plural>>)]>>]
\* validation().rule(closure)
rule(def, closure) ==
    [def EXCEPT !.validation =
        <<[validationOf(def) EXCEPT !.rules = Append(@, closure)]>>]
\* beforeNormalization().before(closure)
before(def, closure) ==
    [def EXCEPT !.normalization =
        <<[normalizationOf(def) EXCEPT !.befores = Append(@, closure)]>>]
\* ArrayNodeDefinition.append: self._children[node.getName()] = node
append(def, child) ==
    [def EXCEPT !.children =
        IF \E i \in DOMAIN @ : @[i].name = child.name
        THEN [i \in DOMAIN @ |-> IF @[i].name = child.name THEN child ELSE @[i]]
        ELSE Append(@, child)]
\* ArrayNodeDefinition.prototype
prototype(def, child) == [def EXCEPT !.prototype = <<child>>]

\* ArrayNodeDefinition.validateConcreteNode: TRUE when it raises
validateConcreteNode(def) ==
    \/ def.key # None
    \/ def.atLeastOne
    \/ def.default
    \/ def.addDefaultChildren # False

\* ArrayNodeDefinition.validatePrototypeNode: TRUE when it raises
validatePrototypeNode(def) ==
    \/ def.addDefaults
    \/ /\ def.addDefaultChildren # False
       /\ \/ def.default
          \/ /\ def.key # None
             /\ \/ def.addDefaultChildren = None
                \/ /\ def.addDefaultChildren.t \in {"int", "bool"}
                   /\ \/ def.addDefaultChildren = True
                      \/ /\ def.addDefaultChildren.t = "int"
                         /\ def.addDefaultChildren.n > 0
          \/ /\ def.key = None
             /\ def.addDefaultChildren.t \in {"str", "map"}

\* PrototypedArrayNode.setAddChildrenIfNoneSet: the values of the dict kept
setAddChildrenIfNoneSet(children) ==
    CASE children = None -> <<Str(<<"d", "e", "f", "a", "u", "l", "t", "s">>)>>
      [] children = True -> <<PyInt(1)>>
      [] children.t = "int" /\ children.n > 0 ->
            [i \in 1..children.n |-> PyInt(i)]
      [] children.t = "str" -> <<children>>
      [] children.t = "list" -> children.l
      [] OTHER -> <<>>

RECURSIVE getNode(_)
RECURSIVE getNodes(_, _)

\* the loop of _createNode over self._children.values()
getNodes(defs, nodes) ==
    IF defs = <<>> THEN [err |-> "none", nodes |-> nodes]
    ELSE LET r == getNode(Head(defs))
         IN IF r.err # "none" THEN [err |-> r.err, nodes |-> nodes]
            ELSE IF Head(defs).name = <<>>
                    \/ \E i \in DOMAIN nodes : nodes[i].name = Head(defs).name
            THEN [err |-> "InvalidArgument", nodes |-> nodes]
            ELSE getNodes(Tail(defs), Append(nodes, r.node))

\* the settings _createNode makes on an array node of either class
ArrayNodeDefinition_configure(def, node) ==
    [node EXCEPT
        !.allowNewKeys = Truthy(def.allowNewKeys),
        !.equivalentValues = << <<None, def.nullEquivalent>>,
                                <<True, def.trueEquivalent>>,
                                <<False, def.falseEquivalent>> >>,
        !.performDeepMerging = def.performDeepMerging,
        !.required = def.required,
        !.ignoreExtraKeys = Truthy(def.ignoreExtraKeys),
        !.normalizeKeys = def.normalizeKeys,
        !.normalizationClosures =
            IF def.normalization = <<>> THEN @
            ELSE buildExpressions(def.normalization[1].befores),
        !.xmlRemappings =
            IF def.normalization = <<>> THEN @
            ELSE def.normalization[1].remappings,
        !.allowOverwrite =
            IF def.merge = <<>> THEN @ ELSE def.merge[1].allowOverwrite,
        !.allowFalse = IF def.merge = <<>> THEN @ ELSE def.merge[1].allowFalse,
        !.finalValidationClosures =
            IF def.validation = <<>> THEN @
            ELSE buildExpressions(def.validation[1].rules)]

\* ArrayNodeDefinition._createNode
ArrayNodeDefinition_createNode(def) ==
    IF def.prototype = <<>>
    THEN IF validateConcreteNode(def)
         THEN [err |-> "InvalidDefinition", node |-> NoNode]
         ELSE LET c == getNodes(def.children, <<>>)
              IN IF c.err # "none" THEN [err |-> c.err, node |-> NoNode]
                 ELSE [err |-> "none",
                       node |-> ArrayNodeDefinition_configure(
                                    def,
                                    [ArrayNode(def.name) EXCEPT
                                        !.addIfNotSet = def.addDefaults,
                                        !.children = c.nodes])]
    ELSE IF validatePrototypeNode(def)
         THEN [err |-> "InvalidDefinition", node |-> NoNode]
         ELSE LET proto == IF def.addDefaultChildren # False
                              /\ def.prototype[1].type = "array"
                              /\ def.prototype[1].prototype = <<>>
                           THEN addDefaultsIfNotSet(def.prototype[1])
                           ELSE def.prototype[1]
                  p == getNode(proto)
              IN IF p.err # "none" THEN [err |-> p.err, node |-> NoNode]
                 ELSE [err |-> "none",
                       node |-> ArrayNodeDefinition_configure(
                                    def,
                                    [PrototypedArrayNode(def.name) EXCEPT
                                        !.keyAttribute = def.key,
                                        !.removeKeyAttribute =
                                            IF def.key # None
                                            THEN Truthy(def.removeKeyItem)
                                            ELSE @,
                                        !.minNumberOfElements =
                                            IF def.atLeastOne THEN 1 ELSE @,
                                        !.defaultValue =
                                            IF def.default
                                            THEN ToDict(def.defaultValue)
                                            ELSE @,
                                        !.defaultChildren =
                                            IF def.addDefaultChildren # False
                                            THEN setAddChildrenIfNoneSet(
                                                     def.addDefaultChildren)
                                            ELSE @,
                                        !.prototype = <<p.node>>])]

\* VariableNodeDefinition._createNode, with _instantiateNode of its subclasses
VariableNodeDefinition_createNode(def) ==
    [err |-> "none",
     node |->
        [BaseNode(def.type, def.name) EXCEPT
            !.normalizationClosures =
                IF def.normalization = <<>> THEN @
                ELSE buildExpressions(def.normalization[1].befores),
            !.allowOverwrite =
                IF def.merge = <<>> THEN @ ELSE def.merge[1].allowOverwrite,
            !.defaultValueSet = IF def.default THEN TRUE ELSE @,
            !.defaultValue = IF def.default THEN def.defaultValue ELSE @,
            !.allowEmptyValue =
                IF def.allowEmptyValue # None
                THEN Truthy(def.allowEmptyValue) ELSE @,
            !.equivalentValues = << <<None, def.nullEquivalent>>,
                                    <<True, def.trueEquivalent>>,
                                    <<False, def.falseEquivalent>> >>,
            !.required = def.required,
            !.finalValidationClosures =
                IF def.validation = <<>> THEN @
                ELSE buildExpressions(def.validation[1].rules)]]

\* NodeDefinition.getNode
getNode(def) ==
    IF def.type = "array" THEN ArrayNodeDefinition_createNode(def)
    ELSE VariableNodeDefinition_createNode(def)

(***************************************************************************)
(* The trees and the fragments of the model.                               *)
(***************************************************************************)
ROOT == <<"r", "o", "o", "t">>
A_B == <<"a", "_", "b">>
A_DASH_B == <<"a", "-", "b">>
SEC == <<"s", "e", "c">>
X == <<"x">>
ITEMS == <<"i", "t", "e", "m", "s">>
ID == <<"i", "d">>
VALUE == <<"v", "a", "l", "u", "e">>
ZZ == <<"z", "z">>

\* the calls of the builder a tree of the model may or may not make
Flags ==
    { "rootCanBeUnset", "rootCannotBeOverwritten", "rootDisallowNewKeys",
      "rootNoDeepMerging", "rootIgnoreExtraKeys", "rootKeepKeys",
      "abRequired", "abDefault", "abCannotBeOverwritten", "abUnset",
      "secCanBeUnset", "xRequired",
      "assembled" }

Apply(cond, def1, def2) == IF cond THEN def1 ELSE def2

\* root: an array with the scalar a_b, the array sec (with the scalar x,
\* which has a default value; addDefaultsIfNotSet) and the prototyped array
\* items, whose elements are scalars keyed by their attribute id
DefinitionOf(F) ==
    LET x0 == defaultValue(NodeDefinition("scalar", X), Str(<<"d", "x">>))
        x == Apply("xRequired" \in F, isRequired(x0), x0)
        sec0 == addDefaultsIfNotSet(append(NodeDefinition("array", SEC), x))
        sec == Apply("secCanBeUnset" \in F, canBeUnset(sec0), sec0)
        ab0 == NodeDefinition("scalar", A_B)
        ab1 == Apply("abRequired" \in F, isRequired(ab0), ab0)
        ab2 == Apply("abDefault" \in F, defaultValue(ab1, Str(<<"d">>)), ab1)
        ab3 == Apply("abCannotBeOverwritten" \in F, cannotBeOverwritten(ab2),
                     ab2)
        ab == Apply("abUnset" \in F, rule(ab3, Callable("thenUnset")), ab3)
        items == useAttributeAsKey(
                     prototype(NodeDefinition("array", ITEMS),
                               NodeDefinition("scalar", <<>>)), ID)
        r0 == append(append(append(NodeDefinition("array", ROOT), ab), sec),
                     items)
        r1 == Apply("rootCanBeUnset" \in F, canBeUnset(r0), r0)
        r2 == Apply("rootCannotBeOverwritten" \in F, cannotBeOverwritten(r1),
                    r1)
        r3 == Apply("rootDisallowNewKeys" \in F,
                    disallowNewKeysInSubsequentConfigs(r2), r2)
        r4 == Apply("rootNoDeepMerging" \in F, performNoDeepMerging(r3), r3)
        r5 == Apply("rootIgnoreExtraKeys" \in F, ignoreExtraKeys(r4), r4)
    IN Apply("rootKeepKeys" \in F, normalizeKeys(r5, FALSE), r5)

\* A tree the caller assembles from the node classes with the settings of a
\* definition: setAllowNewKeys is called only to disallow new keys, so the
\* value ArrayNode.__init__ gives (True) is kept otherwise
Assembled(def, node) ==
    [node EXCEPT !.allowNewKeys = (def.allowNewKeys = None)]

TreeOf(F) ==
    IF "assembled" \in F
    THEN Assembled(DefinitionOf(F), getNode(DefinitionOf(F)).node)
    ELSE getNode(DefinitionOf(F)).node

MaxFlags == 1
FlagSets == {F \in SUBSET Flags : Cardinality(F) <= MaxFlags}

Fragments ==
    { Dict(A_DASH_B :> Str(<<"v">>)),
      Dict(A_B :> Str(<<"w">>)),
      Dict((A_B :> Str(<<"w">>)) @@ (A_DASH_B :> Str(<<"v">>))),
      Dict(SEC :> False),
      Dict(ZZ :> PyInt(1)),
      Dict(SEC :> Dict(ZZ :> PyInt(1))),
      Dict(SEC :> EmptyDict),
      Dict(ITEMS :> List(<<Dict((ID :> Str(<<"k">>))
                                @@ (VALUE :> Str(<<"v">>)))>>)),
      False }

RECURSIVE SeqsUpTo(_, _)
SeqsUpTo(S, n) ==
    IF n = 0 THEN {<<>>}
    ELSE SeqsUpTo(S, n - 1)
         \cup {Append(q, x) : q \in {q \in SeqsUpTo(S, n - 1) : Len(q) = n - 1},
                              x \in S}

(***************************************************************************)
(* Processor.process as a state machine: one step for each call it makes   *)
(* on the tree.                                                            *)
(***************************************************************************)
VARIABLES
    flags,          \* the builder calls the tree was made with
    configTree,     \* the compiled tree
    given,          \* the fragments as the caller made them
    configs,        \* the list passed to process: the caller's objects
    run,            \* the number of the process call under way
    pc,             \* "loop", "merge" or "done"
    i,              \* the index of the fragment of the current iteration
    config,         \* the normalized fragment of the current iteration
    currentConfig,  \* the accumulator
    result,         \* what the process call returned or raised
    results,        \* the outcomes of the earlier process calls
    calls           \* the calls made on the tree in this process call

vars == <<flags, configTree, given, configs, run, pc, i, config, currentConfig,
          result, results, calls>>

NoResult == [err |-> "running", path |-> <<>>, val |-> None]

Init ==
    /\ flags \in FlagSets
    /\ configTree = TreeOf(flags)
    /\ given \in SeqsUpTo(Fragments, MaxConfigs)
    /\ configs = given
    /\ run = 1
    /\ pc = "loop"
    /\ i = 1
    /\ config = None
    /\ currentConfig = EmptyDict
    /\ result = NoResult
    /\ results = <<>>
    /\ calls = <<>>

\* config = configTree.normalize(config)
Normalize ==
    /\ pc = "loop"
    /\ i <= Len(configs)
    /\ LET r == normalize(configTree, <<configTree.name>>, configs[i])
       IN /\ configs' = [configs EXCEPT ![i] = r.inp]
          /\ calls' = Append(calls, <<"normalize", i>>)
          /\ IF IsOk(r)
             THEN /\ config' = r.val
                  /\ pc' = "merge"
                  /\ result' = result
             ELSE /\ config' = config
                  /\ pc' = "done"
                  /\ result' = Raise(r.err, r.path)
    /\ configTree' = TreeAfter_normalize(configTree, <<configTree.name>>,
                                         configs[i])
    /\ UNCHANGED <<flags, given, run, i, currentConfig, results>>

\* currentConfig = configTree.merge(currentConfig, config)
Merge ==
    /\ pc = "merge"
    /\ LET r == merge(configTree, <<configTree.name>>, currentConfig, config)
       IN /\ calls' = Append(calls, <<"merge", i>>)
          /\ IF IsOk(r)
             THEN /\ currentConfig' = r.val
                  /\ i' = i + 1
                  /\ pc' = "loop"
                  /\ result' = result
             ELSE /\ currentConfig' = currentConfig
                  /\ i' = i
                  /\ pc' = "done"
                  /\ result' = r
    /\ configTree' = TreeAfter_merge(configTree, <<configTree.name>>,
                                     currentConfig, config)
    /\ UNCHANGED <<flags, given, configs, run, config, results>>

\* Finalize without the end of the loop: finalize called at any iteration
FinalizeInLoop ==
    /\ pc = "loop"
    /\ result' = finalize(configTree, <<configTree.name>>, currentConfig)
    /\ calls' = Append(calls, <<"finalize", i>>)
    /\ pc' = "done"
    /\ configTree' = TreeAfter_finalize(configTree, <<configTree.name>>,
                                        currentConfig)
    /\ UNCHANGED <<flags, given, configs, run, i, config, currentConfig,
                   results>>

\* return configTree.finalize(currentConfig)
Finalize ==
    /\ pc = "loop"
    /\ i > Len(configs)
    /\ result' = finalize(configTree, <<configTree.name>>, currentConfig)
    /\ calls' = Append(calls, <<"finalize", i>>)
    /\ pc' = "done"
    /\ configTree' = TreeAfter_finalize(configTree, <<configTree.name>>,
                                        currentConfig)
    /\ UNCHANGED <<flags, given, configs, run, i, config, currentConfig,
                   results>>

\* the caller calls process again with the same tree and the same list
ProcessAgain ==
    /\ pc = "done"
    /\ run < MaxRuns
    /\ results' = Append(results, result)
    /\ run' = run + 1
    /\ pc' = "loop"
    /\ i' = 1
    /\ config' = None
    /\ currentConfig' = EmptyDict
    /\ result' = NoResult
    /\ calls' = <<>>
    /\ UNCHANGED <<flags, configTree, given, configs>>

Next == Normalize \/ Merge \/ Finalize \/ ProcessAgain

Spec == Init /\ [][Next]_vars

(***************************************************************************)
(* Processor.process as a function of the tree and the list: the outcome   *)
(* of a call on fragments no earlier call has touched.                     *)
(***************************************************************************)
RECURSIVE ProcessLoop(_, _, _)
ProcessLoop(tree, list, current) ==
    IF list = <<>> THEN finalize(tree, <<tree.name>>, current)
    ELSE LET n == normalize(tree, <<tree.name>>, Head(list))
         IN IF ~IsOk(n) THEN Raise(n.err, n.path)
            ELSE LET m == merge(tree, <<tree.name>>, current, n.val)
                 IN IF ~IsOk(m) THEN m
                    ELSE ProcessLoop(tree, Tail(list), m.val)

process(tree, list) == ProcessLoop(tree, list, EmptyDict)

Last(seq) == seq[Len(seq)]
Done == pc = "done"
\* no call was made on the tree yet: the fragments are as the caller made them
Fresh == run = 1 /\ calls = <<>>
\* the process call ended in finalize
Finalized == Done /\ calls # <<>> /\ Last(calls)[1] = "finalize"

(***************************************************************************)
(* C1.  process normalizes and merges the fragments one after the other in *)
(* input order, starting from an empty accumulator, calls finalize once,   *)
(* after the last fragment was merged, and returns what finalize returns.  *)
(***************************************************************************)
ExpectedCalls(n) ==
    [j \in 1..(2 * n + 1) |->
        IF j = 2 * n + 1 THEN <<"finalize", n + 1>>
        ELSE IF j % 2 = 1 THEN <<"normalize", (j + 1) \div 2>>
        ELSE <<"merge", j \div 2>>]

\* C1: the calls process makes are normalize and merge of each fragment in
\* input order, from an empty accumulator, then one finalize after the last
\* merge, whose outcome is the outcome of process
C1_ProcessOrder ==
    /\ Len(calls) <= 2 * Len(configs) + 1
    /\ \A j \in DOMAIN calls : calls[j] = ExpectedCalls(Len(configs))[j]
    /\ calls = <<>> => currentConfig = EmptyDict
    /\ (Done /\ IsOk(result)) => calls = ExpectedCalls(Len(configs))
    /\ Finalized =>
          result = finalize(configTree, <<configTree.name>>, currentConfig)
    /\ (Done /\ run = 1) => result = process(configTree, given)

C1_Witness ==
    /\ Done /\ run = 1 /\ IsOk(result)
    /\ Len(given) = MaxConfigs
    /\ calls = ExpectedCalls(MaxConfigs)

(***************************************************************************)
(* C2.  The unset signal never reaches the caller of process: a call       *)
(* returns a value or raises one of the other errors.                      *)
(***************************************************************************)
\* C2: the outcome of a finished process call is never the unset signal
C2_UnsetNeverSurfaces == Done => result.err # "UnsetKey"

(***************************************************************************)
(* C3.  A second process call on the same tree with the same list has the  *)
(* outcome of the first.                                                   *)
(***************************************************************************)
\* C3: a repeated process call has the outcome of the first call
C3_SameOutcomeTwice == (Done /\ run > 1) => result = results[1]

(***************************************************************************)
(* C4.  In the finalize of an array node, a declared child whose key is    *)
(* absent from the merged value makes finalize fail with                   *)
(* InvalidConfiguration when it is required; otherwise the result holds    *)
(* the child's default value under its key when it has one, and no entry   *)
(* for the key when it has none.                                           *)
(***************************************************************************)
AbsentChildren(node, value) ==
    {j \in DOMAIN node.children : node.children[j].name \notin DOMAIN value.m}

FinalizeOfAbsent(node, value, r) ==
    \A j \in AbsentChildren(node, value) :
        LET child == node.children[j]
        IN IF child.required THEN r.err = "InvalidConfiguration"
           ELSE IsOk(r) =>
                  IF hasDefaultValue(child)
                  THEN /\ child.name \in DOMAIN r.val.m
                       /\ r.val.m[child.name] = getDefaultValue(child)
                  ELSE child.name \notin DOMAIN r.val.m

\* the merged value of the child sec, when it is a dict
MergedSec ==
    IF IsDict(currentConfig) /\ SEC \in DOMAIN currentConfig.m
       /\ IsDict(currentConfig.m[SEC])
    THEN <<currentConfig.m[SEC]>> ELSE <<>>

\* C4: after finalize of a mapping, every declared child absent from the
\* merged value is an error when required, else has its default value in the
\* result when it has one and no entry when it has none (root and sec)
C4_AbsentChildren ==
    (Finalized /\ IsDict(currentConfig)) =>
        /\ FinalizeOfAbsent(configTree, currentConfig, result)
        /\ MergedSec # <<>> =>
              FinalizeOfAbsent(Child(configTree, SEC), MergedSec[1],
                               finalize(Child(configTree, SEC), <<ROOT, SEC>>,
                                        MergedSec[1]))

\* a_b is absent and has no default value; sec is absent and has one
C4_Witness ==
    /\ Finalized /\ IsDict(currentConfig)
    /\ flags = {}
    /\ DOMAIN currentConfig.m = {ITEMS}
    /\ IsOk(result)
    /\ A_B \notin DOMAIN result.val.m
    /\ result.val.m[SEC] = Dict(X :> Str(<<"d", "x">>))

(***************************************************************************)
(* C5.  When the merged value of a child array node that allows False is   *)
(* False, the result of process has no entry for the child's key, and      *)
(* neither the unset signal nor an error of that child reaches the caller. *)
(***************************************************************************)
MergedSecIsFalse ==
    /\ IsDict(currentConfig)
    /\ SEC \in DOMAIN currentConfig.m
    /\ currentConfig.m[SEC] = False

\* C5: a child array that allows False and whose merged value is False has
\* no entry in the result; no unset signal and no error of that child
\* reaches the caller: the outcome is the one for the merged value without
\* the child, less the child's default value
C5_FalseStripsSubtree ==
    (Finalized /\ MergedSecIsFalse) =>
        /\ Child(configTree, SEC).allowFalse
        /\ result.err # "UnsetKey"
        /\ ~IsOk(result) => result.path # <<ROOT, SEC>>
        /\ IsOk(result) => SEC \notin DOMAIN result.val.m
        /\ LET absent == finalize(configTree, <<ROOT>>,
                                  Dict(Without(currentConfig.m, SEC)))
           IN /\ result.err = absent.err
              /\ IsOk(result) => result.val.m = Without(absent.val.m, SEC)

\* sec has a default value (addDefaultsIfNotSet) and is False
C5_Witness ==
    /\ Finalized /\ MergedSecIsFalse
    /\ flags = {"secCanBeUnset"}
    /\ hasDefaultValue(Child(configTree, SEC))
    /\ IsOk(result)
    /\ SEC \notin DOMAIN result.val.m

(***************************************************************************)
(* C6.  In a tree made with the builder without a call of                  *)
(* disallowNewKeysInSubsequentConfigs, merging a fragment that has a key   *)
(* the non-empty accumulator lacks adds the key and raises no              *)
(* InvalidConfiguration.                                                   *)
(***************************************************************************)
\* C6: in a builder-made tree without disallowNewKeysInSubsequentConfigs, merge
\* of a new key into a non-empty accumulator does not raise
\* InvalidConfiguration and keeps the key
C6_NewKeysAllowed ==
    ( /\ "assembled" \notin flags
      /\ "rootDisallowNewKeys" \notin flags
      /\ pc = "merge"
      /\ IsDict(currentConfig) /\ DOMAIN currentConfig.m # {}
      /\ IsDict(config) /\ DOMAIN config.m \ DOMAIN currentConfig.m # {} ) =>
        LET r == merge(configTree, <<ROOT>>, currentConfig, config)
        IN /\ r.err # "InvalidConfiguration"
           /\ IsOk(r) => DOMAIN config.m \subseteq DOMAIN r.val.m

(***************************************************************************)
(* C7.  Two valid fragments with disjoint keys give, processed in either   *)
(* order, the same result: the union of their keys, finalized.             *)
(***************************************************************************)
\* a fragment the tree accepts on its own
Valid(f) == IsOk(process(configTree, <<f>>))
\* the keys of the normalized fragment
NormalizedKeys(f) == DOMAIN normalize(configTree, <<ROOT>>, f).val.m
UnionOf(f1, f2) ==
    Dict(normalize(configTree, <<ROOT>>, f1).val.m
         @@ normalize(configTree, <<ROOT>>, f2).val.m)

TwoValidDicts ==
    /\ Len(given) = 2
    /\ IsDict(given[1]) /\ IsDict(given[2])
    /\ Valid(given[1]) /\ Valid(given[2])

\* evaluated before the first call and when the first process call has ended
BothOrdersGiveUnion ==
    LET union == finalize(configTree, <<ROOT>>, UnionOf(given[1], given[2]))
    IN /\ Fresh =>
            /\ IsOk(union)
            /\ process(configTree, given) = union
            /\ process(configTree, <<given[2], given[1]>>) = union
       /\ (Done /\ run = 1) => result = union

\* C7 as it was made: two valid fragments with disjoint keys give the same
\* successful result in both orders, the finalized union
C7_Original ==
    ( /\ Fresh \/ (Done /\ run = 1)
      /\ TwoValidDicts
      /\ DOMAIN given[1].m \cap DOMAIN given[2].m = {} )
        => BothOrdersGiveUnion

\* C7 as amended: when the node allows new keys and merges deeply, two
\* valid fragments whose keys are disjoint once normalized give the same
\* successful result in both orders, the finalized union
C7_DisjointCommute ==
    ( /\ Fresh \/ (Done /\ run = 1)
      /\ TwoValidDicts
      /\ configTree.allowNewKeys
      /\ configTree.performDeepMerging
      /\ NormalizedKeys(given[1]) \cap NormalizedKeys(given[2]) = {} )
        => BothOrdersGiveUnion

C7_Witness ==
    /\ Done /\ run = 1
    /\ TwoValidDicts
    /\ configTree.allowNewKeys /\ configTree.performDeepMerging
    /\ NormalizedKeys(given[1]) = {A_B}
    /\ NormalizedKeys(given[2]) = {SEC}
    /\ IsOk(result)
    /\ {A_B, SEC} \subseteq DOMAIN result.val.m

(***************************************************************************)
(* C8.  normalize of an array node fails with InvalidConfiguration exactly *)
(* when the mapping, after key normalization and XML remapping, has a key  *)
(* that is no declared child and ignoreExtraKeys is off; with              *)
(* ignoreExtraKeys on it succeeds and drops the undeclared keys.           *)
(***************************************************************************)
\* the mapping after key normalization and XML remapping
Prepared(node, value) == _remapXml(node, PreNormalize(node, value)).val
ExtraKeys(node, value) == DOMAIN Prepared(node, value).m \ ChildNames(node)

\* every declared child the mapping has normalizes
ChildrenNormalize(node, path, value) ==
    LET prepared == Prepared(node, value).m
    IN \A j \in DOMAIN node.children :
           node.children[j].name \in DOMAIN prepared =>
               IsOk(normalize(node.children[j],
                              Append(path, node.children[j].name),
                              prepared[node.children[j].name]))

\* the claim as it was made, for one node and one mapping
ExtraKeysRejected(node, path, value) ==
    LET r == normalize(node, path, value)
        extra == ExtraKeys(node, value)
    IN /\ r.err = "InvalidConfiguration"
            <=> (extra # {} /\ ~node.ignoreExtraKeys)
       /\ node.ignoreExtraKeys =>
            /\ IsOk(r)
            /\ DOMAIN r.val.m \cap extra = {}

ExtraKeysRejectedHere(node, path, value) ==
    LET r == normalize(node, path, value)
        prepared == DOMAIN Prepared(node, value).m
        extra == prepared \ ChildNames(node)
    IN ChildrenNormalize(node, path, value) =>
        /\ (r.err = "InvalidConfiguration" /\ r.path = path)
              <=> (extra # {} /\ ~node.ignoreExtraKeys)
        /\ ~IsOk(r) => (r.err = "InvalidConfiguration" /\ r.path = path)
        /\ IsOk(r) => DOMAIN r.val.m = prepared \ extra

Defines(f, path) ==
    \/ Len(path) = 1
    \/ LET n == normalize(configTree, <<ROOT>>, f)
       IN IsOk(n) /\ IsDict(n.val) /\ path[2] \in DOMAIN n.val.m

Definers(path) == {j \in DOMAIN given : Defines(given[j], path)}

\* C9: process ends with ForbiddenOverwrite only for a node that two
\* fragments define, and does end with it when two fragments define the
\* non-overwritable child a_b
C9_OverwriteOnlyIfDefinedTwice ==
    (Done /\ run = 1) =>
        /\ result.err = "ForbiddenOverwrite"
              => Cardinality(Definers(result.path)) >= 2
        /\ ( /\ ~Child(configTree, A_B).allowOverwrite
             /\ \A j \in DOMAIN given :
                    IsOk(normalize(configTree, <<ROOT>>, given[j]))
             /\ Cardinality(Definers(<<ROOT, A_B>>)) >= 2 )
              => result.err = "ForbiddenOverwrite"

(***************************************************************************)
(* C10.  Key normalization renames a key that has a '-' and no '_' to the  *)
(* key with '_' for every '-' exactly when the mapping does not have that  *)
(* key already; every other key is kept; no value is overwritten and the   *)
(* number of entries is kept.                                              *)
(***************************************************************************)
Renamed(d, k) ==
    HasChar(k, "-") /\ ~HasChar(k, "_") /\ ReplaceDash(k) \notin DOMAIN d

KeysNormalized(node, value) ==
    LET d == value.m
        out == PreNormalize(node, value).m
        target(k) == IF Renamed(d, k) THEN ReplaceDash(k) ELSE k
    IN /\ DOMAIN out = {target(k) : k \in DOMAIN d}
       /\ \A k \in DOMAIN d : out[target(k)] = d[k]
       /\ \A k \in DOMAIN d : Renamed(d, k) => k \notin DOMAIN out
       /\ Cardinality(DOMAIN out) = Cardinality(DOMAIN d)

MaxElems == 2

KEY_V == <<"v">>
KEY_K == <<"k">>
KEY_J == <<"j">>

\* the calls of the builder a prototyped tree may or may not make
ProtoFlags == {"atLeastOne", "elementUnset"}

\* root: arrayNode('root').useAttributeAsKey('id').prototype('variable')
ProtoDefinitionOf(F) ==
    LET e0 == NodeDefinition("variable", <<>>)
        e == Apply("elementUnset" \in F, rule(e0, Callable("thenUnset")), e0)
        r0 == useAttributeAsKey(prototype(NodeDefinition("array", ROOT), e), ID)
    IN Apply("atLeastOne" \in F, requiresAtLeastOneElement(r0), r0)

ProtoTreeOf(F) == getNode(ProtoDefinitionOf(F)).node

\* the elements of an input: mappings with and without id, and a scalar
Elements ==
    { Dict((ID :> Str(KEY_K)) @@ (KEY_V :> PyInt(1))),
      Dict((ID :> Str(KEY_K)) @@ (VALUE :> PyInt(5))),
      Dict((ID :> Str(KEY_J)) @@ (VALUE :> PyInt(5))),
      Dict((ID :> PyInt(1)) @@ (VALUE :> PyInt(5))),
      Dict(KEY_V :> PyInt(1)),
      PyInt(7) }

\* the inputs: lists of elements, and dicts of elements under the keys v, k
ProtoInputs ==
    {List(l) : l \in SeqsUpTo(Elements, MaxElems)}
    \cup {Dict(f) : f \in UNION {[D -> Elements] : D \in SUBSET {KEY_V, KEY_K}}}

InitProto ==
    /\ flags \in SUBSET ProtoFlags
    /\ configTree = ProtoTreeOf(flags)
    /\ given \in {<<>>} \cup {<<x>> : x \in ProtoInputs}
    /\ configs = given
    /\ run = 1
    /\ pc = "loop"
    /\ i = 1
    /\ config = None
    /\ currentConfig = EmptyDict
    /\ result = NoResult
    /\ results = <<>>
    /\ calls = <<>>

SpecProto == InitProto /\ [][Next]_vars

\* the first fragment was normalized: config is what normalize returned
Normalized == run = 1 /\ pc = "merge" /\ i = 1

\* the elements of an input, by their key in value.items()
ElementsOf(value) == ToDict(value).m

HasKeyAttribute(node, e) == IsDict(e) /\ node.keyAttribute.s \in DOMAIN e.m

\* an element with its key attribute: the key it is promoted to, and what is
\* left of it
PromotedKey(node, e) == KeyOfValue(e.m[node.keyAttribute.s])
Promoted(node, e) ==
    LET rest == Without(e.m, node.keyAttribute.s)
    IN IF DOMAIN rest = {VALUE} THEN rest[VALUE] ELSE Dict(rest)

\* the key of the result an element is stored under
ResultKey(node, k, e) ==
    IF HasKeyAttribute(node, e) THEN PromotedKey(node, e) ELSE k

(***************************************************************************)
(* C11.  With the key attribute id (removed), every element that is a      *)
(* mapping with id is stored in the result under the value of its id,      *)
(* without the field id, and as the value of its field value when that is  *)
(* the only field left.                                                    *)
(***************************************************************************)
\* C11: after a successful normalize of a prototyped array keyed by id, each
\* element of the input that is a mapping with id is found in the result
\* under element[id], as the prototype normalizes what is left of it
C11_KeyAttributePromoted ==
    Normalized =>
        \A k \in DOMAIN ElementsOf(given[1]) :
            LET e == ElementsOf(given[1])[k]
            IN HasKeyAttribute(configTree, e) =>
                /\ PromotedKey(configTree, e) \in DOMAIN config.m
                /\ config.m[PromotedKey(configTree, e)]
                     = normalize(configTree.prototype[1],
                                 <<ROOT, PromotedKey(configTree, e)>>,
                                 Promoted(configTree, e)).val

(***************************************************************************)
(* C12.  normalize of a prototyped array with a key attribute never        *)
(* overwrites an element: two elements with the same result key make it    *)
(* fail, and on success the result has as many entries as the input has    *)
(* elements.                                                               *)
(***************************************************************************)
\* two elements of the input end up under the same key
SameResultKey(node, value) ==
    \E k1, k2 \in DOMAIN ElementsOf(value) :
        /\ k1 # k2
        /\ ResultKey(node, k1, ElementsOf(value)[k1])
             = ResultKey(node, k2, ElementsOf(value)[k2])

\* C12: a normalize that succeeded had no two elements with the same result
\* key, and its result has one entry for each element of the input
C12_NoSilentOverwrite ==
    Normalized =>
        /\ ~SameResultKey(configTree, given[1])
        /\ Cardinality(DOMAIN config.m)
             = Cardinality(DOMAIN ElementsOf(given[1]))

(***************************************************************************)
(* Processor.process on a tree put together from the node classes: an      *)
(* array root with the IntegerNode n.                                      *)
(***************************************************************************)
MaxNum == 2

KEY_N == <<"n">>

\* minValue and maxValue of the node: None or an int
NumBounds == {None} \cup {PyInt(n) : n \in (0 - MaxNum)..MaxNum}

\* root = ArrayNode('root'); root.addChild(IntegerNode('n', None, min, max))
NumTreeOf(minValue, maxValue) ==
    addChild(ArrayNode(ROOT), IntegerNode(KEY_N, minValue, maxValue))

\* the fragments {'n': v}
NumFragments ==
    {Dict(KEY_N :> PyInt(v)) : v \in (0 - MaxNum - 1)..(MaxNum + 1)}

InitNum ==
    /\ flags = {}
    /\ configTree \in {NumTreeOf(lo, hi) : lo \in NumBounds, hi \in NumBounds}
    /\ given \in {<<x>> : x \in NumFragments}
    /\ configs = given
    /\ run = 1
    /\ pc = "loop"
    /\ i = 1
    /\ config = None
    /\ currentConfig = EmptyDict
    /\ result = NoResult
    /\ results = <<>>
    /\ calls = <<>>

SpecNum == InitNum /\ [][Next]_vars

(***************************************************************************)
(* C13.  finalize of a numeric node fails with InvalidConfiguration        *)
(* exactly when the value is less than the configured minimum or greater   *)
(* than the configured maximum, and returns the value otherwise.           *)
(***************************************************************************)
OutOfBounds(node, v) ==
    \/ node.min # None /\ v < node.min.n
    \/ node.max # None /\ v > node.max.n

\* C13: process of {'n': v} ends in finalize; it fails with
\* InvalidConfiguration for root.n iff v is below the minimum or above the
\* maximum of n, and returns {'n': v} otherwise
C13_NumericBounds ==
    (Done /\ run = 1) =>
        /\ Finalized
        /\ IF OutOfBounds(Child(configTree, KEY_N), given[1].m[KEY_N].n)
           THEN result = Raise("InvalidConfiguration", <<ROOT, KEY_N>>)
           ELSE result = Ok(given[1])

(***************************************************************************)
(* Processor.process on a tree whose node a_b has hooks: callables given   *)
(* to beforeNormalization().before() and to validation().rule().           *)
(***************************************************************************)
HookFlags == {"beforeInvalid", "beforeUnset", "ruleInvalid", "ruleUnset"}

HookDefinitionOf(F) ==
    LET ab0 == NodeDefinition("variable", A_B)
        ab1 == Apply("beforeInvalid" \in F,
                     before(ab0, Callable("thenInvalid")), ab0)
        ab2 == Apply("beforeUnset" \in F,
                     before(ab1, Callable("thenUnset")), ab1)
        ab3 == Apply("ruleInvalid" \in F,
                     rule(ab2, Callable("thenInvalid")), ab2)
        ab == Apply("ruleUnset" \in F, rule(ab3, Callable("thenUnset")), ab3)
    IN append(NodeDefinition("array", ROOT), ab)

HookTreeOf(F) ==
    Assembled(HookDefinitionOf(F), getNode(HookDefinitionOf(F)).node)

HookFragments ==
    {Dict(A_B :> Str(<<"v">>)), Dict(A_B :> Str(<<"w">>)), EmptyDict}

InitHook ==
    /\ flags \in SUBSET HookFlags
    /\ configTree = HookTreeOf(flags)
    /\ given \in SeqsUpTo(HookFragments, MaxConfigs)
    /\ configs = given
    /\ run = 1
    /\ pc = "loop"
    /\ i = 1
    /\ config = None
    /\ currentConfig = EmptyDict
    /\ result = NoResult
    /\ results = <<>>
    /\ calls = <<>>

SpecHook == InitHook /\ [][Next]_vars

(***************************************************************************)
(* C14.  A failure of a hook that is not one of the defined kinds reaches  *)
(* the caller of process as InvalidConfiguration with the path of the      *)
(* node; a failure of a defined kind passes through as it is.              *)
(***************************************************************************)
\* C14: process on the tree with hooks never ends with a failure that is
\* not of a defined kind, and an InvalidConfiguration it ends with (here
\* only a wrapped hook failure) has the path of the node with the hook
C14_HookFailuresWrapped ==
    Done =>
        /\ result.err \in {"none"} \cup {k \in {result.err} :
                                            IsDefinitionException(k)}
        /\ result.err = "InvalidConfiguration" =>
               result.path = <<ROOT, A_B>>

(***************************************************************************)
(* Processor.process on a tree whose node a_b has the final-validation     *)
(* hooks compiled from a list of ExprBuilders: validation().rule() with no *)
(* closure, an if part, a then part.  Here flags is that list.             *)
(***************************************************************************)
MaxExprs == 2

\* the if parts of ExprBuilder.always, ifTrue, ifString, ifNull
IfPart(name, v) ==
    CASE name = "always" -> TRUE
      [] name = "ifTrue" -> v = True
      [] name = "ifString" -> v.t = "str"
      [] name = "ifNull" -> v = None

IfParts == {"always", "ifString", "ifNull"}
ThenParts == {"thenUnset", "thenInvalid", "ThenEmptyArray"}
ExprBuilders == {Expr(ip, tp) : ip \in IfParts, tp \in ThenParts}

RECURSIVE Rules(_, _)
Rules(def, exprs) ==
    IF exprs = <<>> THEN def ELSE Rules(rule(def, Head(exprs)), Tail(exprs))

ExprDefinitionOf(exprs) ==
    append(NodeDefinition("array", ROOT),
           Rules(NodeDefinition("variable", A_B), exprs))

ExprTreeOf(exprs) ==
    Assembled(ExprDefinitionOf(exprs), getNode(ExprDefinitionOf(exprs)).node)

HookValues == {Str(<<"v">>), None, True}
ExprFragments == {Dict(A_B :> v) : v \in HookValues} \cup {EmptyDict}

InitExpr ==
    /\ flags \in SeqsUpTo(ExprBuilders, MaxExprs) \ {<<>>}
    /\ configTree = ExprTreeOf(flags)
    /\ given \in {<<x>> : x \in ExprFragments}
    /\ configs = given
    /\ run = 1
    /\ pc = "loop"
    /\ i = 1
    /\ config = None
    /\ currentConfig = EmptyDict
    /\ result = NoResult
    /\ results = <<>>
    /\ calls = <<>>

SpecExpr == InitExpr /\ [][Next]_vars

(***************************************************************************)
(* C15.  Each hook compiled by buildExpressions uses the if part and the   *)
(* then part of its own ExprBuilder.                                       *)
(***************************************************************************)
\* what hook number n of the list is to return for v
ExprOutcome(expr, v) ==
    IF IfPart(expr.ifPart, v) THEN CallThen(expr.thenPart, v) ELSE Ok(v)

\* C15: the node a_b has as many final-validation hooks as the list has
\* ExprBuilders, and hook n applied to v gives thenPart_n(v) when
\* ifPart_n(v) holds and v otherwise
C15_OwnBuilder ==
    LET closures == Child(configTree, A_B).finalValidationClosures
    IN /\ Len(closures) = Len(flags)
       /\ Done => \A n \in DOMAIN flags : \A v \in HookValues :
              ApplyClosure(closures[n], v) = ExprOutcome(flags[n], v)

(***************************************************************************)
(* Building a tree from an array definition with any of the options of     *)
(* ArrayNodeDefinition, then Processor.process on the tree.  When getNode  *)
(* raises there is no tree and no process call: pc is "failed".            *)
(***************************************************************************)
BuildFlags ==
    {"prototype", "children", "useAttributeAsKey",
     "requiresAtLeastOneElement", "defaultValue",
     "addDefaultChildrenIfNoneSet", "addDefaultsIfNotSet"}

BuildDefinitionOf(F) ==
    LET d0 == NodeDefinition("array", ROOT)
        d1 == Apply("prototype" \in F,
                    prototype(d0, NodeDefinition("variable", <<>>)), d0)
        d2 == Apply("children" \in F,
                    append(d1, NodeDefinition("variable", A_B)), d1)
        d3 == Apply("useAttributeAsKey" \in F, useAttributeAsKey(d2, ID), d2)
        d4 == Apply("requiresAtLeastOneElement" \in F,
                    requiresAtLeastOneElement(d3), d3)
        d5 == Apply("defaultValue" \in F, defaultValue(d4, EmptyDict), d4)
        d6 == Apply("addDefaultChildrenIfNoneSet" \in F,
                    addDefaultChildrenIfNoneSet(d5, None), d5)
    IN Apply("addDefaultsIfNotSet" \in F, addDefaultsIfNotSet(d6), d6)

BuildFragments == {EmptyDict, Dict(A_B :> Str(<<"v">>))}

InitBuild ==
    /\ flags \in SUBSET BuildFlags
    /\ configTree = getNode(BuildDefinitionOf(flags)).node
    /\ given \in SeqsUpTo(BuildFragments, MaxConfigs)
    /\ configs = given
    /\ run = 1
    /\ pc = IF getNode(BuildDefinitionOf(flags)).err = "none"
            THEN "loop" ELSE "failed"
    /\ i = 1
    /\ config = None
    /\ currentConfig = EmptyDict
    /\ result = IF getNode(BuildDefinitionOf(flags)).err = "none"
                THEN NoResult
                ELSE Raise(getNode(BuildDefinitionOf(flags)).err, <<ROOT>>)
    /\ results = <<>>
    /\ calls = <<>>

SpecBuild == InitBuild /\ [][Next]_vars

(***************************************************************************)
(* C16.  getNode fails with a definition error exactly when an option of   *)
(* prototyped nodes is set on a definition without a prototype or an       *)
(* option of concrete nodes on a definition with a prototype.              *)
(***************************************************************************)
PrototypeOnly ==
    {"useAttributeAsKey", "requiresAtLeastOneElement", "defaultValue",
     "addDefaultChildrenIfNoneSet"}
ConcreteOnly == {"addDefaultsIfNotSet", "children"}

Conflict(F) ==
    IF "prototype" \in F THEN F \cap ConcreteOnly # {}
    ELSE F \cap PrototypeOnly # {}

\* C16: the build of the definition fails, with InvalidDefinition and before
\* any call on a tree, iff the options of the definition are in conflict
C16_ConflictsRejected ==
    /\ pc = "failed" <=> Conflict(flags)
    /\ pc = "failed" => result.err = "InvalidDefinition" /\ calls = <<>>

(***************************************************************************)
(* Declaring the children of an array one after the other, through the     *)
(* builder (append, then getNode) or through ArrayNode.addChild, then      *)
(* Processor.process on the tree.  Here flags is the declaration: the way  *)
(* taken and the list of the children declared, each a variable node with  *)
(* a default value.                                                        *)
(***************************************************************************)
MaxChildren == 2

Declared ==
    {[name |-> n, default |-> Str(d)] :
        n \in {A_B, X}, d \in {<<"d">>, <<"e">>}}

Declarations ==
    [via : {"append", "addChild"}, children : SeqsUpTo(Declared, MaxChildren)]

\* children().variableNode(name).defaultValue(d).end(), one after the other
RECURSIVE AppendAll(_, _)
AppendAll(def, decl) ==
    IF decl = <<>> THEN def
    ELSE AppendAll(append(def, defaultValue(
                                   NodeDefinition("variable", Head(decl).name),
                                   Head(decl).default)),
                   Tail(decl))

\* node.addChild(child) of a VariableNode with setDefaultValue, one after the
\* other, until one raises
RECURSIVE AddAll(_, _)
AddAll(node, decl) ==
    IF decl = <<>> THEN [err |-> "none", node |-> node]
    ELSE LET child == [VariableNode(Head(decl).name) EXCEPT
                          !.defaultValueSet = TRUE,
                          !.defaultValue = Head(decl).default]
         IN IF addChild_raises(node, child)
            THEN [err |-> "InvalidArgument", node |-> NoNode]
            ELSE AddAll(addChild(node, child), Tail(decl))

DeclaredTree(d) ==
    IF d.via = "append"
    THEN getNode(AppendAll(NodeDefinition("array", ROOT), d.children))
    ELSE AddAll(ArrayNode(ROOT), d.children)

DupFragments == {EmptyDict, Dict(A_B :> Str(<<"v">>)), Dict(X :> Str(<<"w">>))}

InitDup ==
    /\ flags \in Declarations
    /\ configTree = DeclaredTree(flags).node
    /\ given \in {<<x>> : x \in DupFragments}
    /\ configs = given
    /\ run = 1
    /\ pc = IF DeclaredTree(flags).err = "none" THEN "loop" ELSE "failed"
    /\ i = 1
    /\ config = None
    /\ currentConfig = EmptyDict
    /\ result = IF DeclaredTree(flags).err = "none" THEN NoResult
                ELSE Raise(DeclaredTree(flags).err, <<ROOT>>)
    /\ results = <<>>
    /\ calls = <<>>

SpecDup == InitDup /\ [][Next]_vars

(***************************************************************************)
(* C17.  Two children of the same name under one array are rejected when   *)
(* the tree is built; a later child never replaces an earlier one.         *)
(***************************************************************************)
SameNameTwice(decl) ==
    \E m, n \in DOMAIN decl : m # n /\ decl[m].name = decl[n].name

\* C17: the build fails when a name is declared twice, and every child
\* declared is a child of the tree that was built
C17_DuplicateChildRejected ==
    /\ SameNameTwice(flags.children) => pc = "failed"
    /\ pc # "failed" =>
           \A n \in DOMAIN flags.children :
               \E m \in DOMAIN configTree.children :
                   /\ configTree.children[m].name = flags.children[n].name
                   /\ configTree.children[m].defaultValue =
                          flags.children[n].default

(***************************************************************************)
(* Processor.process on a tree whose node items is a prototyped array with *)
(* default children.  Here flags is the declaration of items: made through *)
(* the builder (addDefaultChildrenIfNoneSet, then getNode) or on the node  *)
(* (setAddChildrenIfNoneSet), the children asked for (a number, without    *)
(* key attribute; a name or a list of names, with the key attribute id),   *)
(* and whether the prototype has a default value.                          *)
(***************************************************************************)
MaxDefaultChildren == 2

DefaultChildrenSpecs ==
    {PyInt(n) : n \in 1..MaxDefaultChildren}
        \cup {Str(<<"k">>), List(<<Str(<<"k">>)>>),
              List(<<Str(<<"k">>), Str(<<"j">>)>>)}

DefaultsDeclarations ==
    [via : {"builder", "node"}, children : DefaultChildrenSpecs,
     protoDefault : BOOLEAN]

Keyed(d) == d.children.t # "int"

DefaultsDefinitionOf(d) ==
    LET e0 == NodeDefinition("variable", <<>>)
        e == Apply(d.protoDefault, defaultValue(e0, Str(<<"d">>)), e0)
        p0 == prototype(NodeDefinition("array", ITEMS), e)
        p1 == Apply(Keyed(d), useAttributeAsKey(p0, ID), p0)
    IN append(NodeDefinition("array", ROOT),
              addDefaultChildrenIfNoneSet(p1, d.children))

\* items = PrototypedArrayNode('items', root); items.setPrototype(...);
\* items.setKeyAttribute('id'); items.setAddChildrenIfNoneSet(children)
DefaultsNodeOf(d) ==
    LET e == IF d.protoDefault
             THEN [VariableNode(<<>>) EXCEPT !.defaultValueSet = TRUE,
                                             !.defaultValue = Str(<<"d">>)]
             ELSE VariableNode(<<>>)
    IN addChild(ArrayNode(ROOT),
                [PrototypedArrayNode(ITEMS) EXCEPT
                    !.prototype = <<e>>,
                    !.keyAttribute = IF Keyed(d) THEN Str(ID) ELSE @,
                    !.defaultChildren = setAddChildrenIfNoneSet(d.children)])

DefaultsTree(d) ==
    IF d.via = "builder" THEN getNode(DefaultsDefinitionOf(d))
    ELSE [err |-> "none", node |-> DefaultsNodeOf(d)]

DefaultsFragments ==
    {EmptyDict, Dict(ITEMS :> Dict(KEY_V :> Str(<<"v">>)))}

InitDefaults ==
    /\ flags \in DefaultsDeclarations
    /\ configTree = DefaultsTree(flags).node
    /\ given \in SeqsUpTo(DefaultsFragments, MaxConfigs)
    /\ configs = given
    /\ run = 1
    /\ pc = IF DefaultsTree(flags).err = "none" THEN "loop" ELSE "failed"
    /\ i = 1
    /\ config = None
    /\ currentConfig = EmptyDict
    /\ result = IF DefaultsTree(flags).err = "none" THEN NoResult
                ELSE Raise(DefaultsTree(flags).err, <<ROOT, ITEMS>>)
    /\ results = <<>>
    /\ calls = <<>>

SpecDefaults == InitDefaults /\ [][Next]_vars

(***************************************************************************)
(* C18.  With default children asked for and no element given, the value   *)
(* of the prototyped array has the entries 0..N-1 (a number N, no key      *)
(* attribute) or one entry for each name (names, key attribute), each the  *)
(* default of the prototype or an empty dict.                              *)
(***************************************************************************)
DefaultKeys(children) ==
    CASE children.t = "int" -> {IntKey(n - 1) : n \in 1..children.n}
      [] children.t = "str" -> {children.s}
      [] OTHER -> {children.l[n].s : n \in DOMAIN children.l}

ExpectedDefault(d) ==
    Dict([k \in DefaultKeys(d.children) |->
             IF d.protoDefault THEN Str(<<"d">>) ELSE EmptyDict])

\* C18: the tree is built, and when process ends in finalize with no items
\* given, the result has for items the default children that were asked for
C18_DefaultChildren ==
    /\ pc # "failed"
    /\ (Finalized /\ IsOk(result) /\ ITEMS \notin DOMAIN currentConfig.m) =>
           /\ ITEMS \in DOMAIN result.val.m
           /\ result.val.m[ITEMS] = ExpectedDefault(flags)

(***************************************************************************)
(* Processor.process on a tree whose node items is a prototyped array of   *)
(* variable nodes, child of the root.                                      *)
(***************************************************************************)
MinFlags == {"atLeastOne", "elementUnset"}

MinDefinitionOf(F) ==
    LET e0 == NodeDefinition("variable", <<>>)
        e == Apply("elementUnset" \in F, rule(e0, Callable("thenUnset")), e0)
        p0 == prototype(NodeDefinition("array", ITEMS), e)
        p == Apply("atLeastOne" \in F, requiresAtLeastOneElement(p0), p0)
    IN append(NodeDefinition("array", ROOT), p)

MinTreeOf(F) == Assembled(MinDefinitionOf(F), getNode(MinDefinitionOf(F)).node)

MinFragments ==
    {EmptyDict,
     Dict(ITEMS :> EmptyDict),
     Dict(ITEMS :> Dict(KEY_K :> Str(<<"v">>))),
     Dict(ITEMS :> Dict(KEY_J :> Str(<<"w">>))),
     Dict(ITEMS :> List(<<Str(<<"v">>)>>))}

InitMin ==
    /\ flags \in SUBSET MinFlags
    /\ configTree = MinTreeOf(flags)
    /\ given \in SeqsUpTo(MinFragments, MaxConfigs)
    /\ configs = given
    /\ run = 1
    /\ pc = "loop"
    /\ i = 1
    /\ config = None
    /\ currentConfig = EmptyDict
    /\ result = NoResult
    /\ results = <<>>
    /\ calls = <<>>

SpecMin == InitMin /\ [][Next]_vars

(***************************************************************************)
(* C19.  A prototyped array that requires at least one element has at      *)
(* least one element in every result of process.                           *)
(***************************************************************************)
\* C19: when process returns a result for the tree whose node items
\* requires at least one element, the value of items in it is not empty
C19_AtLeastOneElement ==
    (Done /\ IsOk(result) /\ "atLeastOne" \in flags
          /\ ITEMS \in DOMAIN result.val.m) =>
        DOMAIN result.val.m[ITEMS].m # {}

(***************************************************************************)
(* C20.  normalize, merge and finalize leave the tree as it was built.     *)
(***************************************************************************)
\* C20: at every point of process, and of a later process call, the tree
\* (every node with its name, settings, hooks, children and prototype) is
\* the tree that was built
C20_TreeUnchanged == configTree = ProtoTreeOf(flags)

(***************************************************************************)
(* Two Processor.process calls running at the same time on one tree, each  *)
(* with its own list of fragments.  The tree is a prototyped array of      *)
(* scalar nodes; the calls share it, and so the one prototype node and its *)
(* name.  A step of a call is what it does between two places where the    *)
(* other call can run: self._prototype.setName(k) is a step, the call of   *)
(* self._prototype.normalize(v) or finalize(v) that follows is another     *)
(* (getPath reads the name when the error is made).  Here pc, i, given,    *)
(* configs (the items still to visit), config, currentConfig and result    *)
(* hold one value for each call.                                           *)
(***************************************************************************)
Procs == {1, 2}
MaxConcConfigs == 1

ConcFlags == {"cannotBeEmpty"}

ConcDefinitionOf(F) ==
    LET e == NodeDefinition("scalar", <<>>)
    IN prototype(NodeDefinition("array", ROOT),
                 Apply("cannotBeEmpty" \in F, cannotBeEmpty(e), e))

ConcTreeOf(F) == getNode(ConcDefinitionOf(F)).node

ConcFragments ==
    {Dict(KEY_K :> Str(<<"v">>)),
     Dict(KEY_K :> EmptyDict),
     Dict(KEY_J :> Str(<<"w">>)),
     Dict(KEY_J :> Str(<<>>)),
     Dict(KEY_J :> Str(<<"w">>) @@ KEY_K :> EmptyDict)}

InitConc ==
    /\ flags \in SUBSET ConcFlags
    /\ configTree = ConcTreeOf(flags)
    /\ given \in [Procs -> SeqsUpTo(ConcFragments, MaxConcConfigs)]
    /\ configs = [p \in Procs |-> <<>>]
    /\ run = 1
    /\ pc = [p \in Procs |-> "loop"]
    /\ i = [p \in Procs |-> 1]
    /\ config = [p \in Procs |-> None]
    /\ currentConfig = [p \in Procs |-> EmptyDict]
    /\ result = [p \in Procs |-> NoResult]
    /\ results = <<>>
    /\ calls = <<>>

\* value.items(): the items of a dict, in the order of iteration
ItemsOf(d) == [n \in DOMAIN KeysOf(DOMAIN d.m) |->
                  <<KeysOf(DOMAIN d.m)[n], d.m[KeysOf(DOMAIN d.m)[n]]>>]

\* BaseNode.normalize of the root up to the loop of
\* PrototypedArrayNode._normalizeValue
normalize_begin(p) ==
    /\ pc[p] = "loop"
    /\ i[p] <= Len(given[p])
    /\ LET pre == PreNormalize(configTree, given[p][i[p]])
           v == EquivalentValues(configTree.equivalentValues, pre)
           typed == _validateType(configTree, <<ROOT>>, v)
           remapped == _remapXml(configTree, ToDict(v))
       IN IF ~IsOk(typed)
          THEN /\ result' = [result EXCEPT ![p] = typed]
               /\ pc' = [pc EXCEPT ![p] = "done"]
               /\ UNCHANGED <<config, configs>>
          ELSE IF IsFalse(v)
          THEN /\ config' = [config EXCEPT ![p] = v]
               /\ pc' = [pc EXCEPT ![p] = "merge"]
               /\ UNCHANGED <<result, configs>>
          ELSE IF ~IsOk(remapped)
          THEN /\ result' = [result EXCEPT ![p] = remapped]
               /\ pc' = [pc EXCEPT ![p] = "done"]
               /\ UNCHANGED <<config, configs>>
          ELSE /\ config' = [config EXCEPT ![p] = EmptyDict]
               /\ configs' = [configs EXCEPT ![p] = ItemsOf(remapped.val)]
               /\ pc' = [pc EXCEPT ![p] =
                            IF ItemsOf(remapped.val) = <<>> THEN "merge"
                            ELSE "normalize.setName"]
               /\ UNCHANGED result
    /\ UNCHANGED <<flags, configTree, given, run, i, currentConfig, results,
                   calls>>

\* self._prototype.setName(k), in either loop
prototype_setName(p) ==
    /\ pc[p] \in {"normalize.setName", "finalize.setName"}
    /\ configTree' = [configTree EXCEPT
                         !.prototype[1] = setName(@, Head(configs[p])[1])]
    /\ pc' = [pc EXCEPT ![p] = IF pc[p] = "normalize.setName"
                               THEN "normalize.element"
                               ELSE "finalize.element"]
    /\ UNCHANGED <<flags, given, configs, run, i, config, currentConfig,
                   result, results, calls>>

\* normalized[k] = self._prototype.normalize(v): the path of the prototype
\* node is made of the name it has now
normalize_element(p) ==
    /\ pc[p] = "normalize.element"
    /\ LET k == Head(configs[p])[1]
           v == Head(configs[p])[2]
           r == normalize(configTree.prototype[1],
                          <<ROOT, configTree.prototype[1].name>>, v)
           isAssoc == IsAssoc(ToDict(given[p][i[p]]))
           key == IF isAssoc THEN k
                  ELSE IntKey(Cardinality(DOMAIN config[p].m))
       IN IF ~IsOk(r)
          THEN /\ result' = [result EXCEPT ![p] = Raise(r.err, r.path)]
               /\ pc' = [pc EXCEPT ![p] = "done"]
               /\ UNCHANGED <<config, configs>>
          ELSE /\ config' = [config EXCEPT
                                ![p] = Dict(With(@.m, key, r.val))]
               /\ configs' = [configs EXCEPT ![p] = Tail(@)]
               /\ pc' = [pc EXCEPT ![p] =
                            IF Tail(configs[p]) = <<>> THEN "merge"
                            ELSE "normalize.setName"]
               /\ UNCHANGED result
    /\ UNCHANGED <<flags, configTree, given, run, i, currentConfig, results,
                   calls>>

\* currentConfig = configTree.merge(currentConfig, config): without a key
\* attribute the merge never calls setName
merge_step(p) ==
    /\ pc[p] = "merge"
    /\ LET r == merge(configTree, <<ROOT>>, currentConfig[p], config[p])
       IN IF ~IsOk(r)
          THEN /\ result' = [result EXCEPT ![p] = r]
               /\ pc' = [pc EXCEPT ![p] = "done"]
               /\ UNCHANGED <<currentConfig, i>>
          ELSE /\ currentConfig' = [currentConfig EXCEPT ![p] = r.val]
               /\ i' = [i EXCEPT ![p] = @ + 1]
               /\ pc' = [pc EXCEPT ![p] = "loop"]
               /\ UNCHANGED result
    /\ UNCHANGED <<flags, configTree, given, configs, run, config, results,
                   calls>>

\* BaseNode.finalize of the root up to the loop of
\* PrototypedArrayNode._finalizeValue
finalize_begin(p) ==
    /\ pc[p] = "loop"
    /\ i[p] > Len(given[p])
    /\ LET value == currentConfig[p]
           typed == _validateType(configTree, <<ROOT>>, value)
       IN IF ~IsOk(typed) \/ IsFalse(value) \/ ~IsDict(value)
          THEN /\ result' = [result EXCEPT ![p] =
                                finalize(configTree, <<ROOT>>, value)]
               /\ pc' = [pc EXCEPT ![p] = "done"]
               /\ UNCHANGED <<config, configs>>
          ELSE /\ config' = [config EXCEPT ![p] = value]
               /\ configs' = [configs EXCEPT ![p] = ItemsOf(value)]
               /\ pc' = [pc EXCEPT ![p] =
                            IF ItemsOf(value) = <<>> THEN "finalize.end"
                            ELSE "finalize.setName"]
               /\ UNCHANGED result
    /\ UNCHANGED <<flags, configTree, given, run, i, currentConfig, results,
                   calls>>

\* value[k] = self._prototype.finalize(v), except UnsetKeyException:
\* value.pop(k)
finalize_element(p) ==
    /\ pc[p] = "finalize.element"
    /\ LET k == Head(configs[p])[1]
           v == Head(configs[p])[2]
           r == finalize(configTree.prototype[1],
                         <<ROOT, configTree.prototype[1].name>>, v)
       IN IF ~IsOk(r) /\ r.err # "UnsetKey"
          THEN /\ result' = [result EXCEPT ![p] = r]
               /\ pc' = [pc EXCEPT ![p] = "done"]
               /\ UNCHANGED <<config, configs>>
          ELSE /\ config' = [config EXCEPT ![p] =
                                IF IsOk(r) THEN Dict(With(@.m, k, r.val))
                                ELSE Dict(Without(@.m, k))]
               /\ configs' = [configs EXCEPT ![p] = Tail(@)]
               /\ pc' = [pc EXCEPT ![p] =
                            IF Tail(configs[p]) = <<>> THEN "finalize.end"
                            ELSE "finalize.setName"]
               /\ UNCHANGED result
    /\ UNCHANGED <<flags, configTree, given, run, i, currentConfig, results,
                   calls>>

\* the end of PrototypedArrayNode._finalizeValue and of BaseNode.finalize
finalize_end(p) ==
    /\ pc[p] = "finalize.end"
    /\ result' = [result EXCEPT ![p] =
           IF Cardinality(DOMAIN config[p].m) < configTree.minNumberOfElements
           THEN Raise("InvalidConfiguration", <<ROOT>>)
           ELSE FinalValidationClosures(configTree.finalValidationClosures,
                                        <<ROOT>>, Ok(config[p]))]
    /\ pc' = [pc EXCEPT ![p] = "done"]
    /\ UNCHANGED <<flags, configTree, given, configs, run, i, config,
                   currentConfig, results, calls>>

NextConc ==
    \E p \in Procs :
        \/ normalize_begin(p)
        \/ prototype_setName(p)
        \/ normalize_element(p)
        \/ merge_step(p)
        \/ finalize_begin(p)
        \/ finalize_element(p)
        \/ finalize_end(p)

SpecConc == InitConc /\ [][NextConc]_vars

(***************************************************************************)
(* C21.  Each of two process calls running at the same time on one tree    *)
(* ends as it does when it runs alone.                                     *)
(***************************************************************************)
\* C21: under every interleaving, a call that has ended has the outcome of
\* process on the tree as built and its own list: the same value, or the
\* same kind of error with the same path
C21_SameAsAlone ==
    \A p \in Procs :
        pc[p] = "done" => result[p] = process(ConcTreeOf(flags), given[p])

(***************************************************************************)
(* Trees whose scalar child replaces null, true and false: root has the    *)
(* scalar a_b, declared with treatNullLike, treatTrueLike and              *)
(* treatFalseLike, and the array sec with the scalar x.  flags gives the   *)
(* replacement of each of the three; None, True and False for null, true   *)
(* and false are what NodeDefinition.__init__ sets.                        *)
(***************************************************************************)
E == <<"e">>
Replacements == {None, True, False, PyInt(1), Str(E)}
Treated == {"null", "true", "false"}

IdemDefinitionOf(F) ==
    LET ab == treatFalseLike(
                  treatTrueLike(
                      treatNullLike(NodeDefinition("scalar", A_B), F["null"]),
                      F["true"]),
                  F["false"])
        x == NodeDefinition("scalar", X)
        sec == append(NodeDefinition("array", SEC), x)
    IN append(append(NodeDefinition("array", ROOT), ab), sec)

IdemTreeOf(F) == getNode(IdemDefinitionOf(F)).node

IdemFragments ==
    { Dict(A_B :> None),
      Dict(A_B :> True),
      Dict(A_B :> False),
      Dict(A_B :> Str(E)),
      Dict(A_DASH_B :> False),
      Dict((A_B :> True) @@ (SEC :> None)),
      Dict(SEC :> Dict(X :> None)),
      Dict(ZZ :> PyInt(1)),
      None }

InitIdem ==
    /\ flags \in [Treated -> Replacements]
    /\ configTree = IdemTreeOf(flags)
    /\ given \in {<<>>} \cup {<<x>> : x \in IdemFragments}
    /\ configs = given
    /\ run = 1
    /\ pc = "loop"
    /\ i = 1
    /\ config = None
    /\ currentConfig = EmptyDict
    /\ result = NoResult
    /\ results = <<>>
    /\ calls = <<>>

SpecIdem == InitIdem /\ [][Next]_vars

(***************************************************************************)
(* C22.  normalize of an array node is idempotent.                         *)
(***************************************************************************)
\* the first normalize of the run has just returned config
NormalizedOnce == run = 1 /\ calls = <<<<"normalize", 1>>>> /\ pc = "merge"

\* normalize(config) succeeds and gives config again
NormalizeAgainSame ==
    LET again == normalize(configTree, <<ROOT>>, config)
    IN IsOk(again) /\ again.val = config

Chained(equivalents) ==
    \E m, n \in DOMAIN equivalents :
        /\ m < n
        /\ PyEq(equivalents[m][1], equivalents[n][2])
        /\ equivalents[m][2] # equivalents[n][2]

MaxImports == 2
MaxFileImports == 1

Resources == {"a", "b"}
\* a resource no loader supports: resolve raises FileLoaderLoadException
Unsupported == "m"
Loaders == {1, 2}

Imports == (Resources \cup {Unsupported}) \X BOOLEAN
Files == [imports : SeqsUpTo(Imports, MaxFileImports), fails : BOOLEAN]

InitLoad ==
    /\ flags = Loaders
    /\ configTree = None
    /\ given \in [Resources -> Files]
    /\ configs = <<>>
    /\ run = 0
    /\ pc = "idle"
    /\ i = 1
    /\ config = None
    /\ currentConfig = EmptyDict
    /\ result = NoResult
    /\ results = <<>>
    /\ calls = <<>>

\* the resources of the calls under way, in the order the calls began
ActiveChain(stack) == [n \in DOMAIN stack |-> stack[n].resource]

Frame(loader, resource, ignoreErrors, sourceResource) ==
    [loader |-> loader, resource |-> resource, ignoreErrors |-> ignoreErrors,
     sourceResource |-> sourceResource, next |-> 1]

InSeq(x, seq) == \E n \in DOMAIN seq : seq[n] = x

\* FileLoaderImportCircularReferenceException(list(self._loading.keys()))
CircularReference(loading) == [kind |-> "CircularReference", resources |-> loading]
\* FileLoaderLoadException(resource, sourceResource, 0, e), and any
\* exception a load raises
LoadException(resource) == [kind |-> "Load", resources |-> <<resource>>]

\* the call returned or raised to the caller
Returned(value) == [err |-> "none", path |-> <<>>, val |-> value]
Raised(e) == [err |-> e.kind, path |-> e.resources, val |-> None]

\* the call at the top of the stack ends with the outcome r: control goes
\* back to the load that made it, or to the caller
EndCall(r) ==
    /\ calls' = SubSeq(calls, 1, Len(calls) - 1)
    /\ IF Len(calls) = 1
       THEN /\ pc' = "idle"
            /\ config' = None
            /\ result' = r
            /\ results' = IF run = 1 THEN results ELSE Append(results, result)
       ELSE /\ pc' = IF r.err = "none" THEN "loading" ELSE "raising"
            /\ config' = IF r.err = "none" THEN None
                         ELSE [kind |-> r.err, resources |-> r.path]
            /\ UNCHANGED <<result, results>>

\* the except clauses of imports for the exception e raised in its try block
Except(ignoreErrors, e) ==
    IF e.kind = "CircularReference" THEN Raised(e)
    ELSE IF ~ignoreErrors THEN Raised(e)
    ELSE Returned(None)

\* imports(resource, None, ignoreErrors) up to the call of loader.load; the
\* call is on the stack from here on
BeginImports(stack, loader, resource, ignoreErrors, source) ==
    LET frame == Frame(loader, resource, ignoreErrors, source)
    IN /\ calls' = Append(stack, frame)
       /\ IF resource = Unsupported
          THEN /\ pc' = "raising"
               /\ config' = LoadException(resource)
               /\ configs' = configs
          ELSE IF InSeq(resource, configs)
          THEN /\ pc' = "raising"
               /\ config' = CircularReference(configs)
               /\ configs' = configs
          ELSE /\ pc' = "loading"
               /\ config' = None
               /\ configs' = Append(configs, resource)

\* a caller calls imports on one of the loaders
imports(loader, resource, ignoreErrors) ==
    /\ pc = "idle"
    /\ run < MaxImports
    /\ run' = run + 1
    /\ BeginImports(<<>>, loader, resource, ignoreErrors, None)
    /\ UNCHANGED <<flags, configTree, given, i, currentConfig, result,
                   results>>

\* load reads the next import of its file and calls self.imports
load_imports ==
    /\ pc = "loading"
    /\ LET top == calls[Len(calls)]
           file == given[top.resource]
       IN /\ top.next <= Len(file.imports)
          /\ BeginImports([calls EXCEPT ![Len(calls)].next = @ + 1],
                          top.loader, file.imports[top.next][1],
                          file.imports[top.next][2], top.resource)
    /\ UNCHANGED <<flags, configTree, given, run, i, currentConfig, result,
                   results>>

\* load returns: del self._loading[resource]; return ret
load_returns ==
    /\ pc = "loading"
    /\ LET top == calls[Len(calls)]
           file == given[top.resource]
       IN /\ top.next > Len(file.imports)
          /\ ~file.fails
          /\ configs' = SelectSeq(configs, LAMBDA r : r # top.resource)
          /\ EndCall(Returned(top.resource))
    /\ UNCHANGED <<flags, configTree, given, run, i, currentConfig>>

\* load raises
load_raises ==
    /\ pc = "loading"
    /\ LET top == calls[Len(calls)]
           file == given[top.resource]
       IN /\ top.next > Len(file.imports)
          /\ file.fails
          /\ pc' = "raising"
          /\ config' = LoadException(top.resource)
    /\ UNCHANGED <<flags, configTree, given, configs, run, i, currentConfig,
                   result, results, calls>>

\* the exception reaches the except clauses of the innermost imports call
imports_except ==
    /\ pc = "raising"
    /\ EndCall(Except(calls[Len(calls)].ignoreErrors, config))
    /\ UNCHANGED <<flags, configTree, given, configs, run, i, currentConfig>>

NextLoad ==
    \/ \E loader \in Loaders, resource \in Resources \cup {Unsupported},
          ignoreErrors \in BOOLEAN : imports(loader, resource, ignoreErrors)
    \/ load_imports
    \/ load_returns
    \/ load_raises
    \/ imports_except

SpecLoad == InitLoad /\ [][NextLoad]_vars

(***************************************************************************)
(* C23.  Importing a resource that an enclosing imports call is loading    *)
(* raises the circular reference error with the chain of the calls.        *)
(***************************************************************************)
\* the next import of the file being loaded
NextImport ==
    LET top == calls[Len(calls)]
    IN given[top.resource].imports[top.next]

\* C23: when a load imports a resource that a call under way is loading, the
\* imports call raises the circular reference error, with ignoreErrors too,
\* the error carries the resources of the calls under way in the order they
\* began, and no enclosing call swallows it
C23_CircularReference ==
    [][/\ load_imports /\ InSeq(NextImport[1], ActiveChain(calls))
           => /\ pc' = "raising"
              /\ config' = CircularReference(ActiveChain(calls))
       /\ imports_except /\ config.kind = "CircularReference"
           => IF Len(calls) = 1 THEN result' = Raised(config)
              ELSE pc' = "raising" /\ config' = config]_vars

(***************************************************************************)
(* C30.  An imports call leaves FileLoader._loading as it found it.        *)
(***************************************************************************)
\* C30: once every imports call has ended, by returning, by swallowing an
\* error or by raising, no resource is left in the shared dict
C30_LoadingRestored == pc = "idle" => configs = <<>>

(***************************************************************************)
(* Trees with a section that can be enabled or disabled: root has the      *)
(* array sec, declared with canBeEnabled() or with canBeDisabled().        *)
(***************************************************************************)
EnableFlagSets ==
    {{c} \cup D : c \in {"canBeEnabled", "canBeDisabled"},
                  D \in SUBSET {"secAddDefaults"}}

EnableDefinitionOf(F) ==
    LET s0 == NodeDefinition("array", SEC)
        s1 == Apply("canBeDisabled" \in F, canBeDisabled(s0), canBeEnabled(s0))
        sec == Apply("secAddDefaults" \in F, addDefaultsIfNotSet(s1), s1)
    IN append(NodeDefinition("array", ROOT), sec)

EnableTreeOf(F) == getNode(EnableDefinitionOf(F)).node

EnableFragments ==
    { EmptyDict,
      Dict(SEC :> EmptyDict),
      Dict(SEC :> None),
      Dict(SEC :> True),
      Dict(SEC :> False),
      Dict(SEC :> Dict(KEY_ENABLED :> True)),
      Dict(SEC :> Dict(KEY_ENABLED :> False)) }

InitEnable ==
    /\ flags \in EnableFlagSets
    /\ configTree = EnableTreeOf(flags)
    /\ given \in SeqsUpTo(EnableFragments, MaxConfigs)
    /\ configs = given
    /\ run = 1
    /\ pc = "loop"
    /\ i = 1
    /\ config = None
    /\ currentConfig = EmptyDict
    /\ result = NoResult
    /\ results = <<>>
    /\ calls = <<>>

SpecEnable == InitEnable /\ [][Next]_vars

(***************************************************************************)
(* C24.  A section declared with canBeDisabled() is enabled unless a       *)
(* fragment says otherwise.                                                *)
(***************************************************************************)
\* what the fragments say of enabled: the value the last fragment that
\* mentions it gives (false for the section means enabled = false, true and
\* null mean enabled = true), and byDefault when none mentions it
RECURSIVE EnabledSaid(_, _)
EnabledSaid(list, byDefault) ==
    IF list = <<>> THEN byDefault
    ELSE LET f == Last(list)
             v == f.m[SEC]
             rest == SubSeq(list, 1, Len(list) - 1)
         IN CASE SEC \notin DOMAIN f.m -> EnabledSaid(rest, byDefault)
              [] IsFalse(v) -> False
              [] v \in {None, True} -> True
              [] KEY_ENABLED \in DOMAIN v.m -> v.m[KEY_ENABLED]
              [] OTHER -> EnabledSaid(rest, byDefault)

\* C24: in a result of process for a tree whose section was declared with
\* canBeDisabled(), the section, when it is there, has enabled as the
\* fragments said, and enabled = true when none mentioned it
C24_EnabledByDefault ==
    (/\ Finalized /\ run = 1 /\ IsOk(result)
     /\ "canBeDisabled" \in flags
     /\ SEC \in DOMAIN result.val.m)
        => result.val.m[SEC] = Dict(KEY_ENABLED :> EnabledSaid(given, True))

(***************************************************************************)
(* Processor.normalizeConfig(config, key, plural) on its own: a caller     *)
(* passes a dict, the key item and either no plural or the plural items.   *)
(* Here given is the dict, flags the pair of key and plural, and result    *)
(* what the call returned; pc is "call" before the call and "done" after.  *)
(***************************************************************************)
ITEM == <<"i", "t", "e", "m">>
KEY_NONE == <<"N", "o", "n", "e">>

\* the values of the entries: a scalar and lists
EntryValues ==
    {Str(<<"v">>), List(<<>>), List(<<Str(<<"v">>)>>),
     List(<<Str(<<"v">>), Str(<<"w">>)>>)}

PluralConfigs ==
    {Dict(f) : f \in UNION {[D -> EntryValues] :
                               D \in SUBSET {ITEM, ITEMS, KEY_NONE}}}

InitPlural ==
    /\ flags \in {<<Str(ITEM), None>>, <<Str(ITEM), Str(ITEMS)>>}
    /\ configTree = None
    /\ given \in PluralConfigs
    /\ configs = <<>>
    /\ run = 1
    /\ pc = "call"
    /\ i = 1
    /\ config = None
    /\ currentConfig = EmptyDict
    /\ result = NoResult
    /\ results = <<>>
    /\ calls = <<>>

\* values = Processor.normalizeConfig(config, key, plural)
NormalizeConfig ==
    /\ pc = "call"
    /\ result' = normalizeConfig(given, flags[1], flags[2])
    /\ pc' = "done"
    /\ calls' = Append(calls, <<"normalizeConfig", 1>>)
    /\ UNCHANGED <<flags, configTree, given, configs, run, i, config,
                   currentConfig, results>>

NextPlural == NormalizeConfig

SpecPlural == InitPlural /\ [][NextPlural]_vars

(***************************************************************************)
(* C25.  Without a plural, normalizeConfig looks for the key followed by   *)
(* s.                                                                      *)
(***************************************************************************)
\* what the call is to return when the plural form is p
ExpectedValues(cfg, key, p) ==
    IF p \in DOMAIN cfg.m THEN ListOf(cfg.m[p])
    ELSE IF key \in DOMAIN cfg.m
         THEN IF IsList(cfg.m[key]) THEN Ok(cfg.m[key])
              ELSE Ok(List(<<cfg.m[key]>>))
         ELSE Ok(List(<<>>))

\* C25: called without a plural, normalizeConfig returns the entry of the
\* key followed by s when the dict has one; otherwise the entry of the key,
\* as it is when it is a list and in a list of one element when it is not;
\* otherwise the empty list
C25_DefaultPlural ==
    pc = "done" /\ flags[2] = None
        => result = ExpectedValues(given, flags[1].s, flags[1].s \o <<"s">>)

(***************************************************************************)
(* C26.  The substitution of equivalent values replaces a value at most    *)
(* once.                                                                   *)
(***************************************************************************)
\* the replacement of the first entry of the list that matches the value,
\* and the value itself when none does
FirstMatch(equivalents, value) ==
    LET matching == {n \in DOMAIN equivalents : PyEq(equivalents[n][1], value)}
    IN IF matching = {} THEN value
       ELSE equivalents[CHOOSE n \in matching : \A m \in matching : n <= m][2]

\* the value the fragment gives a_b, under either spelling of the key
GivenFor_a_b(fragment) ==
    IF A_B \in DOMAIN fragment.m THEN fragment.m[A_B] ELSE fragment.m[A_DASH_B]

\* C26: the value normalize gives the scalar a_b is the replacement of the
\* first equivalence that matches the given value, not substituted again
\* (with null -> true and true -> X, null becomes true), and the given
\* value when none matches
C26_AtMostOneSubstitution ==
    (/\ NormalizedOnce
     /\ IsDict(given[1])
     /\ {A_B, A_DASH_B} \cap DOMAIN given[1].m # {})
        => config.m[A_B] =
               FirstMatch(Child(configTree, A_B).equivalentValues,
                          GivenFor_a_b(given[1]))

(***************************************************************************)
(* Trees with nodes that can be unset: root has the scalar a_b, the array  *)
(* sec (with the scalar x, which has a default value) and the prototyped   *)
(* array items of scalars; sec and items are declared with canBeUnset().   *)
(***************************************************************************)
UnsetFlags ==
    {"rootNoDeepMerging", "secNoDeepMerging", "secAddDefaults", "assembled"}

UnsetDefinitionOf(F) ==
    LET x == defaultValue(NodeDefinition("scalar", X), Str(<<"d", "x">>))
        s0 == canBeUnset(append(NodeDefinition("array", SEC), x))
        s1 == Apply("secNoDeepMerging" \in F, performNoDeepMerging(s0), s0)
        sec == Apply("secAddDefaults" \in F, addDefaultsIfNotSet(s1), s1)
        items == canBeUnset(prototype(NodeDefinition("array", ITEMS),
                                      NodeDefinition("scalar", <<>>)))
        r0 == append(append(append(NodeDefinition("array", ROOT),
                                   NodeDefinition("scalar", A_B)), sec), items)
    IN Apply("rootNoDeepMerging" \in F, performNoDeepMerging(r0), r0)

UnsetTreeOf(F) ==
    IF "assembled" \in F
    THEN Assembled(UnsetDefinitionOf(F), getNode(UnsetDefinitionOf(F)).node)
    ELSE getNode(UnsetDefinitionOf(F)).node

UnsetFragments ==
    { Dict(A_B :> Str(<<"w">>)),
      Dict(SEC :> False),
      Dict(SEC :> Dict(X :> Str(<<"v">>))),
      Dict(SEC :> EmptyDict),
      Dict(ITEMS :> False),
      Dict(ITEMS :> Dict(KEY_K :> Str(<<"v">>))),
      Dict((SEC :> False) @@ (ITEMS :> Dict(KEY_J :> Str(<<"w">>)))) }

InitUnset ==
    /\ flags \in SUBSET UnsetFlags
    /\ configTree = UnsetTreeOf(flags)
    /\ given \in SeqsUpTo(UnsetFragments, MaxConfigs)
    /\ configs = given
    /\ run = 1
    /\ pc = "loop"
    /\ i = 1
    /\ config = None
    /\ currentConfig = EmptyDict
    /\ result = NoResult
    /\ results = <<>>
    /\ calls = <<>>

SpecUnset == InitUnset /\ [][Next]_vars

(***************************************************************************)
(* C27.  The sentinel False removes a node only when it is the last word   *)
(* on it.                                                                  *)
(***************************************************************************)
\* the fragments among the first n that mention the node
Mentions(name, n) == {j \in 1..n : name \in DOMAIN given[j].m}
Latest(S) == CHOOSE j \in S : \A k \in S : k <= j

\* what normalize makes of the value the fragment j gives the node
MentionedValue(name, j) ==
    normalize(Child(UnsetTreeOf(flags), name), <<ROOT, name>>,
              given[j].m[name]).val

\* after the merge of the first n fragments: when the last fragment to
\* mention the node gave False, the merged value of the node is False; when
\* it gave a mapping and the one before it gave False, it is that mapping
SentinelMerged(name, n) ==
    LET M == Mentions(name, n)
    IN M # {} =>
          LET j == Latest(M)
          IN IF IsFalse(given[j].m[name])
             THEN /\ name \in DOMAIN currentConfig.m
                  /\ currentConfig.m[name] = False
             ELSE (M \ {j} # {} /\ IsFalse(given[Latest(M \ {j})].m[name]))
                     => /\ name \in DOMAIN currentConfig.m
                        /\ currentConfig.m[name] = MentionedValue(name, j)

\* in the result: the key of a node the fragments mention is missing if and
\* only if the last fragment to mention it gave False
SentinelFinalized(name) ==
    LET M == Mentions(name, Len(given))
    IN M # {} => (name \notin DOMAIN result.val.m
                     <=> IsFalse(given[Latest(M)].m[name]))

SentinelHolds ==
    \A name \in {SEC, ITEMS} :
        /\ (run = 1 /\ pc = "loop") => SentinelMerged(name, i - 1)
        /\ (run = 1 /\ Finalized /\ IsOk(result)) => SentinelFinalized(name)

\* C27 as stated: for every tree, whatever the merging of the ancestors
C27_Original == SentinelHolds

\* C27: for a node whose parent merges deeply, a mapping given after False
\* is the merged value as it is, False given last stays the merged value
\* through the merges of the fragments that do not mention the node, and the
\* key is missing in the result exactly when False was given last
C27_SentinelLastWins == "rootNoDeepMerging" \notin flags => SentinelHolds

\* items was given False and then a mapping, and the merge returned the
\* mapping
C27_Witness ==
    /\ run = 1 /\ pc = "loop" /\ i = 3
    /\ flags = {"assembled"}
    /\ given = <<Dict(ITEMS :> False), Dict(ITEMS :> Dict(KEY_K :> Str(<<"v">>)))>>
    /\ currentConfig = Dict(ITEMS :> Dict(KEY_K :> Str(<<"v">>)))

(***************************************************************************)
(* Trees with nodes that cannot be overwritten: root has the scalar a_b    *)
(* and the array sec with the scalar x; a_b and x are declared with        *)
(* cannotBeOverwritten().                                                  *)
(***************************************************************************)
OverFlags ==
    {"rootNoDeepMerging", "secNoDeepMerging", "secCanBeUnset", "assembled"}

OverDefinitionOf(F) ==
    LET x == cannotBeOverwritten(NodeDefinition("scalar", X))
        s0 == append(NodeDefinition("array", SEC), x)
        s1 == Apply("secNoDeepMerging" \in F, performNoDeepMerging(s0), s0)
        sec == Apply("secCanBeUnset" \in F, canBeUnset(s1), s1)
        ab == cannotBeOverwritten(NodeDefinition("scalar", A_B))
        r0 == append(append(NodeDefinition("array", ROOT), ab), sec)
    IN Apply("rootNoDeepMerging" \in F, performNoDeepMerging(r0), r0)

OverTreeOf(F) ==
    IF "assembled" \in F
    THEN Assembled(OverDefinitionOf(F), getNode(OverDefinitionOf(F)).node)
    ELSE getNode(OverDefinitionOf(F)).node

OverFragments ==
    { EmptyDict,
      Dict(A_B :> Str(<<"v">>)),
      Dict(A_B :> Str(<<"w">>)),
      Dict(SEC :> Dict(X :> Str(<<"v">>))),
      Dict(SEC :> Dict(X :> Str(<<"w">>))),
      Dict(SEC :> EmptyDict),
      Dict(SEC :> False) }

InitOver ==
    /\ flags \in SUBSET OverFlags
    /\ configTree = OverTreeOf(flags)
    /\ given \in SeqsUpTo(OverFragments, MaxConfigs)
    /\ configs = given
    /\ run = 1
    /\ pc = "loop"
    /\ i = 1
    /\ config = None
    /\ currentConfig = EmptyDict
    /\ result = NoResult
    /\ results = <<>>
    /\ calls = <<>>

SpecOver == InitOver /\ [][Next]_vars

(***************************************************************************)
(* C28.  A node that cannot be overwritten is never overwritten.           *)
(***************************************************************************)
\* the paths of the two nodes, and the nodes above each
Path_a_b == <<ROOT, A_B>>
Path_x == <<ROOT, SEC, X>>
ShallowAbove(path) ==
    IF path = Path_a_b THEN {"rootNoDeepMerging"}
    ELSE {"rootNoDeepMerging", "secNoDeepMerging"}

\* the fragment gives the node of the path a value
Supplies(fragment, path) ==
    IF path = Path_a_b THEN A_B \in DOMAIN fragment.m
    ELSE /\ SEC \in DOMAIN fragment.m
         /\ IsDict(fragment.m[SEC])
         /\ X \in DOMAIN fragment.m[SEC].m

\* the fragment sets a node above the path to False
UnsetsAbove(fragment, path) ==
    /\ path = Path_x
    /\ SEC \in DOMAIN fragment.m
    /\ IsFalse(fragment.m[SEC])

\* every fragment is one that normalize accepts
AllValid ==
    \A j \in DOMAIN given : IsOk(normalize(OverTreeOf(flags), <<ROOT>>, given[j]))

SuppliedTwice(path) ==
    \E j, k \in DOMAIN given : j < k /\ Supplies(given[j], path)
                                 /\ Supplies(given[k], path)

\* supplied twice, with no fragment in between that sets a node above to
\* False
SuppliedTwiceInARow(path) ==
    \E j, k \in DOMAIN given :
        /\ j < k /\ Supplies(given[j], path) /\ Supplies(given[k], path)
        /\ \A m \in (j + 1)..(k - 1) : ~UnsetsAbove(given[m], path)

Protected(path) ==
    SuppliedTwiceInARow(path) /\ ShallowAbove(path) \cap flags = {}

\* the first fragment that supplies such a node for the second time
SecondSupply ==
    LET second == {k \in DOMAIN given :
                      \E path \in {Path_a_b, Path_x}, j \in 1..(k - 1) :
                          /\ ShallowAbove(path) \cap flags = {}
                          /\ Supplies(given[j], path)
                          /\ Supplies(given[k], path)
                          /\ \A m \in (j + 1)..(k - 1) :
                                 ~UnsetsAbove(given[m], path)}
    IN CHOOSE k \in second : \A n \in second : k <= n

ReqFlags == {"secRequired", "secAddDefaults", "xRequired", "xDefault"}

ReqDefinitionOf(F) ==
    LET x0 == NodeDefinition("scalar", X)
        x1 == Apply("xRequired" \in F, isRequired(x0), x0)
        x == Apply("xDefault" \in F, defaultValue(x1, Str(<<"d", "x">>)), x1)
        id == defaultValue(NodeDefinition("scalar", ID), Str(<<"d">>))
        s0 == append(append(NodeDefinition("array", SEC), x), id)
        s1 == Apply("secAddDefaults" \in F, addDefaultsIfNotSet(s0), s0)
        sec == Apply("secRequired" \in F, isRequired(s1), s1)
    IN append(NodeDefinition("array", ROOT), sec)

ReqTreeOf(F) == Assembled(ReqDefinitionOf(F), getNode(ReqDefinitionOf(F)).node)

ReqFragments ==
    { EmptyDict,
      Dict(SEC :> EmptyDict),
      Dict(SEC :> Dict(X :> Str(<<"v">>))),
      Dict(SEC :> Dict(ID :> Str(<<"w">>))) }

InitReq ==
    /\ flags \in SUBSET ReqFlags
    /\ configTree = ReqTreeOf(flags)
    /\ given \in SeqsUpTo(ReqFragments, MaxConfigs)
    /\ configs = given
    /\ run = 1
    /\ pc = "loop"
    /\ i = 1
    /\ config = None
    /\ currentConfig = EmptyDict
    /\ result = NoResult
    /\ results = <<>>
    /\ calls = <<>>

SpecReq == InitReq /\ [][Next]_vars

(***************************************************************************)
(* C29.  The mappings of a result hold their required children.            *)
(***************************************************************************)
\* every mapping of the value that is the value of an array node has an
\* entry for each required child of the node, at any depth
RECURSIVE HasRequiredChildren(_, _)
HasRequiredChildren(node, value) ==
    (node.kind = "array" /\ IsDict(value)) =>
        \A n \in DOMAIN node.children :
            LET child == node.children[n]
            IN /\ child.required => child.name \in DOMAIN value.m
               /\ child.name \in DOMAIN value.m
                    => HasRequiredChildren(child, value.m[child.name])

\* C29: a result of process has, in the mapping of every array node, the one
\* of a node whose default was injected included, an entry for each required
\* child; when one would be missing, process fails with InvalidConfiguration
C29_RequiredChildren ==
    (run = 1 /\ Finalized)
        => IF IsOk(result) THEN HasRequiredChildren(ReqTreeOf(flags), result.val)
           ELSE result.err = "InvalidConfiguration"

====
